---- MODULE Spec2Model ----
(***************************************************************************)
(* sl-cli: a command-line client for the SL journey planner and the SL     *)
(* transport (departures) API.  The module models the response             *)
(* normalizers (journeyPlanner.ts, transport.ts) as operators over the     *)
(* raw JSON they receive, and the command handlers of index.ts as a state  *)
(* machine whose steps are the handlers' await points.                     *)
(*                                                                         *)
(* JavaScript values are represented as follows.                           *)
(*   - an optional value (possibly undefined / null) is a sequence of      *)
(*     length 0 or 1: <<>> is undefined, <<v>> is the value v;             *)
(*   - an opaque text (a stop name, a line designation) is a TLA+ string,  *)
(*     "" being the empty (falsy) string;                                  *)
(*   - a text whose characters matter (a product name) is a sequence of    *)
(*     characters, each character a one-symbol string or the name of its   *)
(*     code point ("U00E5" is a-with-ring);                                *)
(*   - a time string is [kind, ms]: kind "iso" is a timestamp text that    *)
(*     Date parses to the epoch millisecond ms, kind "text" is a non-empty *)
(*     text Date cannot parse, kind "empty" is "";                         *)
(*   - a number that may be NaN is [nan, v].                               *)
(***************************************************************************)
EXTENDS Integers, Sequences, FiniteSets, TLC

VARIABLES
    pc,             \* position of the run: "input", "done", or a handler step
    productName,    \* classifier: the product name handed to mapTransportTypeV2
    legType,        \* classifier: the kind it returned (optional)
    journey,        \* journey normalizer: the raw journey object
    proposal,       \* journey normalizer: what parseJourneyToTripProposal returned
    data,           \* trips response: the raw payload handed to parseTripsResponse
    trips,          \* trips response: the list parseTripsResponse returned
    depData,        \* departures: the raw payload handed to parseDeparturesResponse
    now,            \* departures: the time captured at the start of the call
    parsedDeps,     \* departures: parseDeparture's result for each raw record
    departures,     \* departures: the list parseDeparturesResponse returned
    opts,           \* command line: the command, its options, the environment
    configFile,     \* command line: the config file
    outputMode,     \* command line: the output mode the action resolved (optional)
    requests,       \* command line: the network requests issued, in order
    stdout,         \* command line: what was written to the output stream
    stderr,         \* command line: what was written to the error stream
    exitCode,       \* command line: process.exitCode
    resolved,       \* command line: the locations / the site resolved so far
    rejection,      \* command line: the error parseAsync rejected with (optional)
    fetchedSites    \* command line: the list of sites fetchSites returned

classifierVars == <<productName, legType>>
journeyVars == <<journey, proposal>>
tripsVars == <<data, trips>>
depVars == <<depData, now, parsedDeps, departures>>
outVars == <<stdout, stderr, exitCode>>
cliVars == <<opts, configFile, outputMode, requests, outVars, resolved, rejection,
             fetchedSites>>
vars == <<pc, classifierVars, journeyVars, tripsVars, depVars, cliVars>>

\* what a step of one component leaves alone
exceptClassifier == <<journeyVars, tripsVars, depVars, cliVars>>
exceptJourney == <<classifierVars, tripsVars, depVars, cliVars>>
exceptTrips == <<classifierVars, journeyVars, depVars, cliVars>>
exceptDep == <<classifierVars, journeyVars, tripsVars, cliVars>>

(***************************************************************************)
(* Generic helpers.                                                        *)
(***************************************************************************)
None == <<>>
Some(v) == <<v>>

RECURSIVE Flatten(_)
Flatten(ss) == IF ss = <<>> THEN <<>> ELSE Head(ss) \o Flatten(Tail(ss))

Min(S) == CHOOSE m \in S : \A n \in S : m <= n

(***************************************************************************)
(* Characters: String.prototype.normalize("NFD"), the removal of the       *)
(* combining marks U+0300..U+036F, and String.prototype.toUpperCase.       *)
(***************************************************************************)
LowerChars == <<"a","b","c","d","e","f","g","h","i","j","k","l","m",
                "n","o","p","q","r","s","t","u","v","w","x","y","z">>
UpperChars == <<"A","B","C","D","E","F","G","H","I","J","K","L","M",
                "N","O","P","Q","R","S","T","U","V","W","X","Y","Z">>

\* the combining marks of the model's alphabet: ring above, diaeresis, acute
CombiningMarks == {"U030A", "U0308", "U0301"}

\* canonical decomposition of one character
Decompose(c) ==
    CASE c = "U00E5" -> <<"a", "U030A">>      \* a with ring above
      [] c = "U00C5" -> <<"A", "U030A">>      \* A with ring above
      [] c = "U00E4" -> <<"a", "U0308">>      \* a with diaeresis
      [] c = "U00F6" -> <<"o", "U0308">>      \* o with diaeresis
      [] c = "U00E9" -> <<"e", "U0301">>      \* e with acute
      [] OTHER -> <<c>>

NormalizeNFD(str) == Flatten([i \in 1..Len(str) |-> Decompose(str[i])])

StripCombining(str) == SelectSeq(str, LAMBDA c : c \notin CombiningMarks)

UpperChar(c) ==
    IF \E i \in 1..Len(LowerChars) : LowerChars[i] = c
    THEN UpperChars[CHOOSE i \in 1..Len(LowerChars) : LowerChars[i] = c]
    ELSE c

ToUpperCase(str) == [i \in 1..Len(str) |-> UpperChar(str[i])]

\* String.prototype.includes
Includes(str, token) ==
    \E off \in 0..(Len(str) - Len(token)) :
        \A k \in 1..Len(token) : str[off + k] = token[k]

(***************************************************************************)
(* Transit-mode classifier of the journey planner.                         *)
(***************************************************************************)
FOOTPATH   == <<"F","O","O","T","P","A","T","H">>
FOOT       == <<"F","O","O","T">>
WALK       == <<"W","A","L","K">>
TUNNELBANA == <<"T","U","N","N","E","L","B","A","N","A">>
METRO      == <<"M","E","T","R","O">>
PENDEL     == <<"P","E","N","D","E","L">>
TAG        == <<"T","A","G">>
TRAIN      == <<"T","R","A","I","N">>
SPARV      == <<"S","P","A","R","V">>
TRAM       == <<"T","R","A","M">>
BAT        == <<"B","A","T">>
SHIP       == <<"S","H","I","P">>
FERRY      == <<"F","E","R","R","Y">>
BUS        == <<"B","U","S">>

\* mapTransportTypeV2 with the train test moved before the metro test
mapTransportTypeV2_TrainBeforeMetro(name) ==
    LET upper == ToUpperCase(StripCombining(NormalizeNFD(name)))
    IN  IF Includes(upper, FOOTPATH) \/ Includes(upper, FOOT) \/ Includes(upper, WALK)
        THEN "walk"
        ELSE IF Includes(upper, PENDEL) \/ Includes(upper, TAG) \/ Includes(upper, TRAIN)
        THEN "train"
        ELSE IF Includes(upper, TUNNELBANA) \/ Includes(upper, METRO)
        THEN "metro"
        ELSE IF Includes(upper, SPARV) \/ Includes(upper, TRAM)
        THEN "tram"
        ELSE IF Includes(upper, BAT) \/ Includes(upper, SHIP) \/ Includes(upper, FERRY)
        THEN "ship"
        ELSE "bus"

mapTransportTypeV2(name) ==
    LET normalized == StripCombining(NormalizeNFD(name))
        upper == ToUpperCase(normalized)
    IN  IF Includes(upper, FOOTPATH) \/ Includes(upper, FOOT) \/ Includes(upper, WALK)
        THEN "walk"
        ELSE IF Includes(upper, TUNNELBANA) \/ Includes(upper, METRO)
        THEN "metro"
        ELSE IF Includes(upper, PENDEL) \/ Includes(upper, TAG) \/ Includes(upper, TRAIN)
        THEN "train"
        ELSE IF Includes(upper, SPARV) \/ Includes(upper, TRAM)
        THEN "tram"
        ELSE IF Includes(upper, BAT) \/ Includes(upper, SHIP) \/ Includes(upper, FERRY)
        THEN "ship"
        ELSE IF Includes(upper, BUS)
        THEN "bus"
        ELSE "bus"

(***************************************************************************)
(* JavaScript numbers and dates.  A Date is the number getTime() returns.  *)
(***************************************************************************)
NaN == [nan |-> TRUE, v |-> 0]
Num(n) == [nan |-> FALSE, v |-> n]

NumAdd(a, b) == IF a.nan \/ b.nan THEN NaN ELSE Num(a.v + b.v)
NumSub(a, b) == IF a.nan \/ b.nan THEN NaN ELSE Num(a.v - b.v)
\* a > n and a < n are false when a is NaN
NumGt(a, n) == ~a.nan /\ a.v > n
NumLt(a, n) == ~a.nan /\ a.v < n
\* Math.round(a / d) for d > 0: halves round towards +Infinity
RoundDiv(a, d) == IF a.nan THEN NaN ELSE Num((2 * a.v + d) \div (2 * d))
\* Math.max(0, a): NaN when a is NaN
MaxZero(a) == IF a.nan THEN NaN ELSE IF a.v < 0 THEN Num(0) ELSE a

\* time strings
Iso(ms) == [kind |-> "iso", ms |-> ms]
BadTime == [kind |-> "text", ms |-> 0]
EmptyTime == [kind |-> "empty", ms |-> 0]

\* new Date(str).getTime()
NewDate(str) == IF str.kind = "iso" THEN Num(str.ms) ELSE NaN

\* truthiness of an optional time string and of an optional text
TruthyTime(o) == o # None /\ o[1].kind # "empty"
TruthyText(o) == o # None /\ o[1] # ""
\* a || b
OrTime(a, b) == IF TruthyTime(a) THEN a ELSE b
OrText(a, b) == IF TruthyText(a) THEN a ELSE b

(***************************************************************************)
(* Journey normalizer.  parseLegV2 either returns a leg, returns null or   *)
(* throws (a TypeError on reading a property of null, or on calling        *)
(* normalize on a product name that is not a string).                      *)
(***************************************************************************)
Returned(v) == [threw |-> FALSE, value |-> v]
Threw == [threw |-> TRUE, value |-> None]

parseLegV2(rawLeg) ==
    IF rawLeg.isNull THEN Threw
    ELSE IF rawLeg.origin = None \/ rawLeg.destination = None
            \/ rawLeg.transportation = None
    THEN Returned(None)
    ELSE
    LET origin == rawLeg.origin[1]
        destination == rawLeg.destination[1]
        transportation == rawLeg.transportation[1]
        depTimeStr == OrTime(origin.departureTimeEstimated,
                        OrTime(origin.departureTimePlanned,
                               origin.departureTimeBaseTimetable))
        arrTimeStr == OrTime(destination.arrivalTimeEstimated,
                        OrTime(destination.arrivalTimePlanned,
                               destination.arrivalTimeBaseTimetable))
    IN  IF ~TruthyTime(depTimeStr) \/ ~TruthyTime(arrTimeStr)
        THEN Returned(None)
        ELSE
        LET departureTime == NewDate(depTimeStr[1])
            arrivalTime == NewDate(arrTimeStr[1])
            durationSeconds ==
                IF rawLeg.duration # None THEN Num(rawLeg.duration[1])
                ELSE MaxZero(RoundDiv(NumSub(arrivalTime, departureTime), 1000))
            product == transportation.product
            \* (product?.name) || "": a falsy name gives "", a truthy
            \* value that is not a string is passed on as it is
            nameIsString == product = None \/ product[1].name = None
                            \/ product[1].name[1].isString
            productChars == IF product = None \/ product[1].name = None
                            THEN <<>> ELSE product[1].name[1].chars
            line == OrText(transportation.disassembledName,
                      OrText(transportation.number,
                        OrText(transportation.name, None)))
            direction == OrText(transportation.destinationName, None)
            originName == OrText(origin.name, Some("Unknown"))[1]
            destinationName == OrText(destination.name, Some("Unknown"))[1]
            platform == OrText(origin.platformName, OrText(origin.platform, None))
        IN  IF ~nameIsString THEN Threw
            ELSE Returned(Some([
                    type |-> mapTransportTypeV2(productChars),
                    line |-> line,
                    direction |-> direction,
                    departureTime |-> departureTime,
                    arrivalTime |-> arrivalTime,
                    durationSeconds |-> durationSeconds,
                    originName |-> originName,
                    destinationName |-> destinationName,
                    platform |-> platform]))

\* MergeLegs without the merge: every leg is appended
RECURSIVE MergeLegs_AppendAll(_, _)
MergeLegs_AppendAll(legs, legsRaw) ==
    IF legsRaw = <<>> THEN legs
    ELSE MergeLegs_AppendAll(Append(legs, Head(legsRaw)), Tail(legsRaw))

\* MergeLegs that forgets to move the destination name to the merged leg
RECURSIVE MergeLegs_KeepDestination(_, _)
MergeLegs_KeepDestination(legs, legsRaw) ==
    IF legsRaw = <<>> THEN legs
    ELSE
    LET leg == Head(legsRaw)
        n == Len(legs)
    IN  IF n > 0 /\ legs[n].type = "walk" /\ leg.type = "walk"
        THEN MergeLegs_KeepDestination(
                [legs EXCEPT ![n].arrivalTime = leg.arrivalTime,
                             ![n].durationSeconds =
                                 NumAdd(legs[n].durationSeconds, leg.durationSeconds)],
                Tail(legsRaw))
        ELSE MergeLegs_KeepDestination(Append(legs, leg), Tail(legsRaw))

\* the loop of parseJourneyToTripProposal that merges adjacent walk legs
RECURSIVE MergeLegs(_, _)
MergeLegs(legs, legsRaw) ==
    IF legsRaw = <<>> THEN legs
    ELSE
    LET leg == Head(legsRaw)
        n == Len(legs)
    IN  IF n > 0 /\ legs[n].type = "walk" /\ leg.type = "walk"
        THEN MergeLegs(
                [legs EXCEPT ![n].arrivalTime = leg.arrivalTime,
                             ![n].durationSeconds =
                                 NumAdd(legs[n].durationSeconds, leg.durationSeconds),
                             ![n].destinationName = leg.destinationName],
                Tail(legsRaw))
        ELSE MergeLegs(Append(legs, leg), Tail(legsRaw))

\* legs.findIndex((leg) => leg.type !== "walk"), 0-based, -1 when there is none
FindFirstTransport(legs) ==
    IF \E i \in 1..Len(legs) : legs[i].type # "walk"
    THEN Min({i \in 1..Len(legs) : legs[i].type # "walk"}) - 1
    ELSE -1

RECURSIVE SumDurations_Inclusive(_, _)
\* the durations of legs[0 .. count] added up from 0: one leg too many
SumDurations_Inclusive(legs, count) ==
    IF count < 0 \/ count >= Len(legs) THEN Num(0)
    ELSE NumAdd(SumDurations_Inclusive(legs, count - 1), legs[count + 1].durationSeconds)

RECURSIVE SumDurations(_, _)
\* the durations of legs[0 .. count-1] added up from 0
SumDurations(legs, count) ==
    IF count = 0 THEN Num(0)
    ELSE NumAdd(SumDurations(legs, count - 1), legs[count].durationSeconds)

RECURSIVE JoinSummary(_)
\* Array.prototype.join(" -> ") of a list that is not empty
JoinSummary(parts) ==
    IF Len(parts) = 1 THEN parts[1]
    ELSE parts[1] \o " -> " \o JoinSummary(Tail(parts))

\* the summary that lists every leg, the walks too
buildRouteSummary_AllLegs(legs) ==
    JoinSummary([i \in 1..Len(legs) |->
                    IF TruthyText(legs[i].line)
                    THEN legs[i].type \o " " \o legs[i].line[1]
                    ELSE legs[i].type])

buildRouteSummary(legs) ==
    LET transportLegs == SelectSeq(legs, LAMBDA leg : leg.type # "walk")
    IN  IF Len(transportLegs) = 0 THEN "walk"
        ELSE JoinSummary([i \in 1..Len(transportLegs) |->
                 IF TruthyText(transportLegs[i].line)
                 THEN transportLegs[i].type \o " " \o transportLegs[i].line[1]
                 ELSE transportLegs[i].type])

\* rawLegs.map(parseLegV2): the map throws when a call throws
LegResults(rawLegs) == [i \in 1..Len(rawLegs) |-> parseLegV2(rawLegs[i])]

\* .filter((l) => l !== null)
ParsedLegs(rawLegs) ==
    LET kept == SelectSeq(LegResults(rawLegs), LAMBDA r : ~r.threw /\ r.value # None)
    IN  [i \in 1..Len(kept) |-> kept[i].value[1]]

parseJourneyToTripProposal(j) ==
    IF j.isNull THEN None                                   \* journey.legs throws
    ELSE IF ~j.legsIsArray \/ Len(j.legs) = 0 THEN None
    ELSE IF \E i \in 1..Len(j.legs) : LegResults(j.legs)[i].threw
    THEN None                                               \* catch { return null }
    ELSE
    LET legsRaw == ParsedLegs(j.legs)
    IN  IF Len(legsRaw) = 0 THEN None
        ELSE
        LET legs == MergeLegs(<<>>, legsRaw)
            firstTransportIndex == FindFirstTransport(legs)
            walkToFirstLegSeconds ==
                IF firstTransportIndex = -1 THEN Num(0)
                ELSE SumDurations(legs, firstTransportIndex)
            departureTime == legs[1].departureTime
            arrivalTime == legs[Len(legs)].arrivalTime
            tripDurationSeconds ==
                IF j.tripDuration # None THEN Num(j.tripDuration[1])
                ELSE MaxZero(RoundDiv(NumSub(arrivalTime, departureTime), 1000))
            durationMinutes == MaxZero(RoundDiv(tripDurationSeconds, 60))
        IN  Some([departureTime |-> departureTime,
                  arrivalTime |-> arrivalTime,
                  durationMinutes |-> durationMinutes,
                  walkToFirstLegSeconds |-> walkToFirstLegSeconds,
                  legs |-> legs,
                  routeSummary |-> buildRouteSummary(legs)])

\* journeys.map(parseJourneyToTripProposal).filter((t) => t !== null)
parseTripsResponse(d) ==
    IF ~d.journeysIsArray THEN <<>>
    ELSE LET mappedTrips == [i \in 1..Len(d.journeys) |->
                                parseJourneyToTripProposal(d.journeys[i])]
             kept == SelectSeq(mappedTrips, LAMBDA t : t # None)
         IN  [i \in 1..Len(kept) |-> kept[i][1]]

(***************************************************************************)
(* Departure normalizer (transport.ts).  A raw state or transport mode is  *)
(* a sequence of characters, as it is upper-cased before it is compared.   *)
(***************************************************************************)
MaxDepartures == 30

CANCELLED == <<"C","A","N","C","E","L","L","E","D">>
REPLACED == <<"R","E","P","L","A","C","E","D">>
COMMUTER_TRAIN == <<"C","O","M","M","U","T","E","R","_","T","R","A","I","N">>

mapTransportMode(mode) ==
    LET modeUpper == ToUpperCase(mode)
    IN  IF modeUpper = METRO THEN "metro"
        ELSE IF modeUpper = TRAIN \/ modeUpper = COMMUTER_TRAIN THEN "train"
        ELSE IF modeUpper = TRAM THEN "tram"
        ELSE IF modeUpper = SHIP \/ modeUpper = FERRY THEN "ship"
        ELSE "bus"

\* IsStale with the bound off by one minute
IsStale_BelowMinusTwo(minutesUntil) == NumLt(minutesUntil, -2)

\* the test that drops a record as stale
IsStale(minutesUntil) == NumLt(minutesUntil, -1)

\* IsDelayed with >= in place of >
IsDelayed_AtLeast(expectedTime, scheduledTime) ==
    NumGt(NumSub(expectedTime, scheduledTime), 59999)

\* the delay flag
IsDelayed(expectedTime, scheduledTime) ==
    NumGt(NumSub(expectedTime, scheduledTime), 60000)

\* null when the record is dropped; an exception (a null record) is caught
parseDeparture(raw, nowTime) ==
    IF raw.isNull THEN None                             \* catch { return null }
    ELSE IF ~TruthyTime(raw.scheduled) THEN None
    ELSE
    LET scheduledStr == raw.scheduled
        expectedStr == OrTime(raw.expected, scheduledStr)
        scheduledTime == NewDate(scheduledStr[1])
        expectedTime == NewDate(expectedStr[1])
        minutesUntil == RoundDiv(NumSub(expectedTime, nowTime), 60000)
    IN  IF IsStale(minutesUntil) THEN None
        ELSE
        LET lineDesignation == IF raw.designation = None THEN "" ELSE raw.designation[1]
            transportMode == IF raw.transport_mode = None THEN <<>> ELSE raw.transport_mode[1]
            destination == IF raw.destination = None THEN "" ELSE raw.destination[1]
            state == IF raw.state = None THEN <<>> ELSE ToUpperCase(raw.state[1])
        IN  Some([type |-> mapTransportMode(transportMode),
                  line |-> lineDesignation,
                  destination |-> destination,
                  scheduledTime |-> scheduledTime,
                  expectedTime |-> expectedTime,
                  minutesUntil |-> MaxZero(minutesUntil),
                  isDelayed |-> IsDelayed(expectedTime, scheduledTime),
                  platform |-> raw.platform,
                  isCancelled |-> (state = CANCELLED \/ state = REPLACED)])

\* the comparator of the sort: a.expectedTime - b.expectedTime
CompareExpected(a, b) == NumSub(a.expectedTime, b.expectedTime)

(***************************************************************************)
(* Array.prototype.sort.  With a consistent comparator the result is the   *)
(* stable ascending order.  A comparator that returns NaN is not           *)
(* consistent and the order is then implementation-defined: the model      *)
(* offers the results of two insertion procedures, a linear scan from the  *)
(* right and a binary search, which agree whenever no key is NaN.          *)
(***************************************************************************)
InsertAt(s, pos, x) == SubSeq(s, 1, pos - 1) \o <<x>> \o SubSeq(s, pos, Len(s))

RECURSIVE LinearPlace(_, _, _)
\* scanning down from position j: x goes after the first element not above it
LinearPlace(s, j, x) ==
    IF j >= 1 /\ NumGt(CompareExpected(s[j], x), 0)
    THEN LinearPlace(s, j - 1, x)
    ELSE j + 1

RECURSIVE BinaryPlace(_, _, _, _)
BinaryPlace(s, left, right, x) ==
    IF left >= right THEN left + 1
    ELSE LET mid == left + ((right - left) \div 2)
         IN  IF NumLt(CompareExpected(x, s[mid + 1]), 0)
             THEN BinaryPlace(s, left, mid, x)
             ELSE BinaryPlace(s, mid + 1, right, x)

RECURSIVE InsertionSort(_, _, _)
InsertionSort(done, rest, procedure) ==
    IF rest = <<>> THEN done
    ELSE LET x == Head(rest)
             pos == IF procedure = "linear"
                    THEN LinearPlace(done, Len(done), x)
                    ELSE BinaryPlace(done, 0, Len(done), x)
         IN  InsertionSort(InsertAt(done, pos, x), Tail(rest), procedure)

SortProcedures == {"linear", "binary"}

SortByExpected(list, procedure) == InsertionSort(<<>>, list, procedure)

\* .slice(0, 30)
SliceFirst(list) ==
    IF Len(list) <= MaxDepartures THEN list ELSE SubSeq(list, 1, MaxDepartures)

\* departuresData.map((dep) => parseDeparture(dep, now))
MapDepartures(d, nowTime) ==
    [i \in 1..Len(d.departures) |-> parseDeparture(d.departures[i], nowTime)]

\* .filter((d) => d !== null)
NonNull(list) ==
    LET kept == SelectSeq(list, LAMBDA d : d # None)
    IN  [i \in 1..Len(kept) |-> kept[i][1]]

parseDeparturesResponse(d, nowTime, procedure) ==
    IF ~d.departuresIsArray THEN <<>>
    ELSE SliceFirst(SortByExpected(NonNull(MapDepartures(d, nowTime)), procedure))

(***************************************************************************)
(* Command-line layer (index.ts, config.ts): pure helpers.  A text the     *)
(* user types (a stop query, a place, a config value) is a sequence of     *)
(* characters.  A function that throws returns Throw(message), one that    *)
(* completes returns Ok(value).                                            *)
(***************************************************************************)
Ok(v) == [threw |-> FALSE, value |-> v, message |-> ""]
Throw(msg) == [threw |-> TRUE, value |-> None, message |-> msg]

Whitespace == {" ", "\t"}
Digits == {"0", "1", "2", "3", "4", "5", "6", "7", "8", "9"}

RECURSIVE TrimStart(_)
TrimStart(str) ==
    IF str # <<>> /\ Head(str) \in Whitespace THEN TrimStart(Tail(str)) ELSE str

RECURSIVE TrimEnd(_)
TrimEnd(str) ==
    IF str # <<>> /\ str[Len(str)] \in Whitespace
    THEN TrimEnd(SubSeq(str, 1, Len(str) - 1)) ELSE str

\* String.prototype.trim
Trim(str) == TrimEnd(TrimStart(str))

LowerChar(c) ==
    IF \E i \in 1..Len(UpperChars) : UpperChars[i] = c
    THEN LowerChars[CHOOSE i \in 1..Len(UpperChars) : UpperChars[i] = c]
    ELSE c

ToLowerCase(str) == [i \in 1..Len(str) |-> LowerChar(str[i])]

StartsWith(str, prefix) ==
    Len(prefix) <= Len(str) /\ SubSeq(str, 1, Len(prefix)) = prefix

\* /^\d+$/.test(str)
IsDigits(str) == str # <<>> /\ \A i \in 1..Len(str) : str[i] \in Digits

\* truthiness of an optional sequence of characters
TruthyChars(o) == o # None /\ o[1] # <<>>

resolveOutputMode(json, plain, isTTY) ==
    IF json /\ plain THEN Throw("Use either --json or --plain, not both.")
    ELSE IF json THEN Ok("json")
    ELSE IF plain THEN Ok("plain")
    ELSE IF isTTY THEN Ok("pretty")
    ELSE Ok("json")

CONFIG_KEYS == <<"origin", "home", "work", "timezone">>

assertConfigKey(key) ==
    IF \E i \in 1..Len(CONFIG_KEYS) : CONFIG_KEYS[i] = key
    THEN Ok(None)
    ELSE Throw("Invalid config key. Use one of: origin, home, work, timezone")

\* The config file: absent, or a text that is a JSON object (a function from
\* some keys to texts), or a text JSON.parse rejects.
NoFile == [exists |-> FALSE, isJson |-> FALSE, content |-> <<>>]
FileOf(cfg) == [exists |-> TRUE, isJson |-> TRUE, content |-> cfg]
BrokenFile == [exists |-> TRUE, isJson |-> FALSE, content |-> <<>>]

readConfig(file) ==
    IF ~file.exists THEN Ok(<<>>)                       \* ENOENT: {}
    ELSE IF ~file.isJson THEN Throw("Unexpected token in JSON")
    ELSE Ok(file.content)

\* cfg[key]: undefined when the key is not stored
ConfigValue(cfg, key) == IF key \in DOMAIN cfg THEN Some(cfg[key]) ELSE None

\* cfg[key] = value
ConfigWith(cfg, key, value) ==
    [k \in (DOMAIN cfg) \cup {key} |-> IF k = key THEN value ELSE cfg[k]]

writeConfig(cfg) == FileOf(cfg)

resolveOrigin(cliValue, envOrigin, file) ==
    IF TruthyChars(cliValue) /\ Trim(cliValue[1]) # <<>>
    THEN Ok(Some(Trim(cliValue[1])))
    ELSE IF TruthyChars(envOrigin) /\ Trim(envOrigin[1]) # <<>>
    THEN Ok(Some(Trim(envOrigin[1])))
    ELSE IF readConfig(file).threw THEN readConfig(file)
    ELSE LET origin == ConfigValue(readConfig(file).value, "origin")
         IN  IF TruthyChars(origin) /\ Trim(origin[1]) # <<>>
             THEN Ok(Some(Trim(origin[1])))
             ELSE Ok(None)

(***************************************************************************)
(* parseCoordInput: the trimmed input must match                           *)
(*   ^(-?\d+(?:\.\d+)?)[,\s]+(-?\d+(?:\.\d+)?)$                            *)
(* A coordinate is kept in millionths of a degree (inputs have at most     *)
(* six decimals).                                                          *)
(***************************************************************************)
DigitSeq == <<"0", "1", "2", "3", "4", "5", "6", "7", "8", "9">>
DigitValue(c) == (CHOOSE i \in 1..10 : DigitSeq[i] = c) - 1

RECURSIVE DigitsValue(_)
DigitsValue(str) ==
    IF str = <<>> THEN 0
    ELSE 10 * DigitsValue(SubSeq(str, 1, Len(str) - 1)) + DigitValue(str[Len(str)])

RECURSIVE Pow10(_)
Pow10(n) == IF n = 0 THEN 1 ELSE 10 * Pow10(n - 1)

\* \d+(?:\.\d+)?
IsUnsignedDecimal(str) ==
    \/ IsDigits(str)
    \/ \E dot \in 2..(Len(str) - 1) :
          /\ str[dot] = "."
          /\ IsDigits(SubSeq(str, 1, dot - 1))
          /\ IsDigits(SubSeq(str, dot + 1, Len(str)))
          /\ Len(str) - dot <= 6

\* -?\d+(?:\.\d+)?
IsDecimal(str) ==
    IF str # <<>> /\ Head(str) = "-" THEN IsUnsignedDecimal(Tail(str))
    ELSE IsUnsignedDecimal(str)

\* Number(str) of a text that IsDecimal, in millionths
MicroValue(str) ==
    LET negative == Head(str) = "-"
        body == IF negative THEN Tail(str) ELSE str
        dots == {i \in 1..Len(body) : body[i] = "."}
        dot == IF dots = {} THEN Len(body) + 1 ELSE CHOOSE i \in dots : TRUE
        whole == DigitsValue(SubSeq(body, 1, dot - 1))
        fraction == SubSeq(body, dot + 1, Len(body))
        micro == whole * 1000000 + DigitsValue(fraction) * Pow10(6 - Len(fraction))
    IN  IF negative THEN 0 - micro ELSE micro

IsSeparators(str) == str # <<>> /\ \A i \in 1..Len(str) : str[i] \in Whitespace \cup {","}

parseCoordInput(input) ==
    LET t == Trim(input)
        splits == {<<i, j>> \in (1..Len(t)) \X (1..Len(t)) :
                      /\ i < j
                      /\ IsDecimal(SubSeq(t, 1, i))
                      /\ IsSeparators(SubSeq(t, i + 1, j - 1))
                      /\ IsDecimal(SubSeq(t, j, Len(t)))}
    IN  IF splits = {} THEN None
        ELSE LET ij == CHOOSE x \in splits : TRUE
                 lat == MicroValue(SubSeq(t, 1, ij[1]))
                 lon == MicroValue(SubSeq(t, ij[2], Len(t)))
             IN  IF lat < -90000000 \/ lat > 90000000
                    \/ lon < -180000000 \/ lon > 180000000
                 THEN None
                 ELSE Some([lat |-> lat, lon |-> lon])

(***************************************************************************)
(* parseDateTimeInput.  Only whether a Date results matters to the         *)
(* command: a text of one of the three shapes always gives a Date (the     *)
(* Date constructor rolls out-of-range fields over), any other text is     *)
(* left to new Date(text), which accepts the ISO sample and nothing else   *)
(* of the texts used here.                                                *)
(***************************************************************************)
\* \d{4}-\d{2}-\d{2}
IsDateShape(str) ==
    /\ Len(str) = 10
    /\ str[5] = "-" /\ str[8] = "-"
    /\ \A i \in {1, 2, 3, 4, 6, 7, 9, 10} : str[i] \in Digits

\* \d{2}:\d{2}
IsTimeShape(str) ==
    /\ Len(str) = 5
    /\ str[3] = ":"
    /\ \A i \in {1, 2, 4, 5} : str[i] \in Digits

IsoDateTimeText ==
    <<"2","0","2","6","-","0","1","-","1","7","T","1","2",":","0","0",":","0","0","Z">>

parseDateTimeInput(input) ==
    LET trimmed == Trim(input)
    IN  IF IsDateShape(trimmed) THEN Some("date")
        ELSE IF /\ Len(trimmed) = 16
                /\ IsDateShape(SubSeq(trimmed, 1, 10))
                /\ trimmed[11] \in {" ", "T"}
                /\ IsTimeShape(SubSeq(trimmed, 12, 16))
        THEN Some("date and time")
        ELSE IF IsTimeShape(trimmed) THEN Some("time today")
        ELSE IF trimmed = IsoDateTimeText THEN Some("generic")
        ELSE None

(***************************************************************************)
(* Stop resolution.                                                        *)
(***************************************************************************)
\* haversineDistance in millimetres, for the coordinates the model uses
haversineDistance(lat1, lon1, lat2, lon2) ==
    IF lat1 = lat2 /\ lon1 = lon2 THEN 0
    ELSE IF <<lat1, lon1>> = <<59340000, 18070000>>
    THEN CASE <<lat2, lon2>> = <<59330000, 18060000>> -> 1248218
           [] <<lat2, lon2>> = <<59350000, 18080000>> -> 1248143
           [] <<lat2, lon2>> = <<59340000, 18050000>> -> 1134060
           [] <<lat2, lon2>> = <<59860000, 17640000>> -> 62679235
    ELSE CASE <<lat1, lon1, lat2, lon2>> = <<59330000, 18060000, 59860000, 17640000>>
                -> 63496192

RECURSIVE NearestScan_LastMinimum(_, _, _, _, _)
\* the loop of findNearestSite with <= for <: the last minimum wins
NearestScan_LastMinimum(sites, lat, lon, best, bestDistance) ==
    IF sites = <<>> THEN best
    ELSE
    LET site == Head(sites)
    IN  IF site.coord = None
        THEN NearestScan_LastMinimum(Tail(sites), lat, lon, best, bestDistance)
        ELSE LET distance == haversineDistance(lat, lon,
                                               site.coord[1].lat, site.coord[1].lon)
             IN  IF bestDistance = None \/ distance <= bestDistance[1]
                 THEN NearestScan_LastMinimum(Tail(sites), lat, lon,
                                              Some(site), Some(distance))
                 ELSE NearestScan_LastMinimum(Tail(sites), lat, lon, best, bestDistance)

RECURSIVE NearestScan(_, _, _, _, _)
\* the loop of findNearestSite; bestDistance is None for +Infinity
NearestScan(sites, lat, lon, best, bestDistance) ==
    IF sites = <<>> THEN best
    ELSE
    LET site == Head(sites)
    IN  IF site.coord = None
        THEN NearestScan(Tail(sites), lat, lon, best, bestDistance)
        ELSE LET distance == haversineDistance(lat, lon,
                                               site.coord[1].lat, site.coord[1].lon)
             IN  IF bestDistance = None \/ distance < bestDistance[1]
                 THEN NearestScan(Tail(sites), lat, lon, Some(site), Some(distance))
                 ELSE NearestScan(Tail(sites), lat, lon, best, bestDistance)

findNearestSite(sites, lat, lon) == NearestScan(sites, lat, lon, None, None)

\* Array.prototype.find
FindFirst(list, Test(_)) ==
    IF \E i \in 1..Len(list) : Test(list[i])
    THEN Some(list[Min({i \in 1..Len(list) : Test(list[i])})])
    ELSE None

\* the lookup by id that answers none when the id is unknown
ResolveById_NoneWhenUnknown(sites, trimmed) ==
    FindFirst(sites, LAMBDA site : site.id = trimmed)

\* lines 457-461: the query is a site id; an unknown id gives a site made up
\* from the query
ResolveById(sites, trimmed) ==
    LET match == FindFirst(sites, LAMBDA site : site.id = trimmed)
    IN  IF match # None THEN match
        ELSE Some([id |-> trimmed, name |-> trimmed, coord |-> None, products |-> <<>>])

\* the lookup by name that takes the first site containing the query
ResolveByName_FirstMatch(sites, trimmed) ==
    FindFirst(sites, LAMBDA site : Includes(ToLowerCase(site.name), ToLowerCase(trimmed)))

\* lines 463-477: the query is matched against the names
ResolveByName(sites, trimmed) ==
    LET normalizedQuery == ToLowerCase(trimmed)
        matches == SelectSeq(sites,
                       LAMBDA site : Includes(ToLowerCase(site.name), normalizedQuery))
        exact == FindFirst(matches,
                       LAMBDA site : ToLowerCase(site.name) = normalizedQuery)
        prefix == FindFirst(matches,
                       LAMBDA site : StartsWith(ToLowerCase(site.name), normalizedQuery))
    IN  IF Len(matches) = 0 THEN None
        ELSE IF exact # None THEN exact
        ELSE IF prefix # None THEN prefix
        ELSE Some(matches[1])

\* resolveSite once fetchSites has returned
resolveSiteIn(sites, stopInput, nearInput) ==
    IF TruthyChars(nearInput)
    THEN LET coord == parseCoordInput(nearInput[1])
         IN  IF coord = None THEN Throw("Invalid --near coordinates. Use lat,lon.")
             ELSE Ok(findNearestSite(sites, coord[1].lat, coord[1].lon))
    ELSE IF ~TruthyChars(stopInput) THEN Ok(None)
    ELSE IF IsDigits(Trim(stopInput[1])) THEN Ok(ResolveById(sites, Trim(stopInput[1])))
    ELSE Ok(ResolveByName(sites, Trim(stopInput[1])))

\* resolveLocation once searchLocations has returned: the best match, else the
\* first candidate of the highest match quality (the sort is stable)
resolveLocationIn(results) ==
    IF Len(results) = 0 THEN None
    ELSE LET best == FindFirst(results, LAMBDA loc : loc.isBest)
             Quality(loc) == IF loc.matchQuality = None THEN 0 ELSE loc.matchQuality[1]
         IN  IF best # None THEN best
             ELSE FindFirst(results,
                     LAMBDA loc : \A i \in 1..Len(results) :
                                     Quality(results[i]) <= Quality(loc))

(***************************************************************************)
(* Each component runs on its own: the variables of the others rest.       *)
(***************************************************************************)
EmptyJourney == [isNull |-> FALSE, legsIsArray |-> TRUE, legs |-> <<>>,
                 tripDuration |-> None]

EmptyData == [journeysIsArray |-> TRUE, journeys |-> <<>>]

EmptyDepData == [departuresIsArray |-> TRUE, departures |-> <<>>]

\* the options of a command line; an option not given is None
NoCommand ==
    [command |-> "none", json |-> FALSE, plain |-> FALSE, isTTY |-> FALSE,
     from |-> None, to |-> None, depart |-> None, at |-> None, arrive |-> None,
     envOrigin |-> None, stop |-> None, near |-> None, minutes |-> None,
     key |-> "", value |-> <<>>]

ClassifierIdle == productName = <<>> /\ legType = None
JourneyIdle == journey = EmptyJourney /\ proposal = None
TripsIdle == data = EmptyData /\ trips = <<>>
DepIdle == /\ depData = EmptyDepData /\ now = Num(0)
           /\ parsedDeps = <<>> /\ departures = <<>>
NothingResolved == [origin |-> None, destination |-> None, site |-> None]
NothingWritten == stdout = <<>> /\ stderr = <<>> /\ exitCode = 0
CliIdle == /\ opts = NoCommand /\ configFile = NoFile /\ outputMode = None
           /\ requests = <<>> /\ NothingWritten
           /\ resolved = NothingResolved /\ rejection = None
           /\ fetchedSites = <<>>

(***************************************************************************)
(* The classifier as a run: a product name is put together from words and  *)
(* fragments of words, then classified.                                    *)
(***************************************************************************)
MaxNameLen == 12

NameWords == {
    <<"T","u","n","n","e","l","b","a","n","a">>,
    <<"P","e","n","d","e","l">>,
    <<"t","U00E5","g">>,                        \* "tag" with a-ring, precomposed
    <<"t","a","U030A","g">>,                    \* the same, already decomposed
    <<"S","p","U00E5","r","v","a","g","n">>,
    <<"B","U00E5","t">>,
    <<"B","u","s","s">>,
    <<"f","o","o">>,
    <<"t","p","a","t","h">>,
    <<"m","e","t","r","o">>,
    <<"U0301","s">>,                            \* a combining acute, then "s"
    <<" ">>
}

AppendWord ==
    /\ pc = "input"
    /\ legType = None
    /\ \E w \in NameWords :
          /\ Len(productName) + Len(w) <= MaxNameLen
          /\ productName' = productName \o w
    /\ UNCHANGED <<pc, legType, exceptClassifier>>

Classify ==
    /\ pc = "input"
    /\ legType' = Some(mapTransportTypeV2(productName))
    /\ pc' = "done"
    /\ UNCHANGED <<productName, exceptClassifier>>

InitClassifier == /\ pc = "input"
                  /\ ClassifierIdle /\ JourneyIdle /\ TripsIdle /\ DepIdle /\ CliIdle
NextClassifier == AppendWord \/ Classify
SpecClassifier == InitClassifier /\ [][NextClassifier]_vars

(***************************************************************************)
(* Raw legs of the journey planner's response.  The nested objects         *)
(* origin.properties and transportation.destination are flattened into     *)
(* platformName / platform and destinationName.                            *)
(***************************************************************************)
Text(chars) == Some([isString |-> TRUE, chars |-> chars])

RawStop(name, estimated, planned) ==
    [name |-> name, estimated |-> estimated, planned |-> planned]

RawLeg(productChars, from, to, lineName, lineNumber, duration) ==
    [isNull |-> FALSE,
     origin |-> Some([name |-> from.name,
                      departureTimeEstimated |-> from.estimated,
                      departureTimePlanned |-> from.planned,
                      departureTimeBaseTimetable |-> None,
                      platformName |-> None,
                      platform |-> None]),
     destination |-> Some([name |-> to.name,
                           arrivalTimeEstimated |-> to.estimated,
                           arrivalTimePlanned |-> to.planned,
                           arrivalTimeBaseTimetable |-> None]),
     transportation |-> Some([product |-> Some([name |-> Text(productChars)]),
                              disassembledName |-> lineName,
                              number |-> lineNumber,
                              name |-> None,
                              destinationName |-> None]),
     duration |-> duration]

\* a walk whose duration comes from its times: 60 s .. 360 s
WalkHome ==
    RawLeg(<<"f","o","o","t","p","a","t","h">>,
           RawStop(Some("Home"), Some(Iso(60000)), Some(Iso(0))),
           RawStop(Some("Odenplan"), None, Some(Iso(360000))),
           None, None, None)
\* a walk with a duration of its own
WalkPlatform ==
    RawLeg(<<"W","a","l","k">>,
           RawStop(Some("Entrance"), None, Some(Iso(400000))),
           RawStop(Some("Platform"), None, Some(Iso(500000))),
           None, None, Some(90))
BusLeg ==
    RawLeg(<<"B","u","s","s">>,
           RawStop(Some("Odenplan"), None, Some(Iso(600000))),
           RawStop(Some("Slussen"), Some(Iso(1260000)), Some(Iso(1200000))),
           Some("4"), None, Some(600))
\* an empty disassembledName: the line is the number
MetroLeg ==
    RawLeg(<<"T","u","n","n","e","l","b","a","n","a">>,
           RawStop(Some("Slussen"), None, Some(Iso(1300000))),
           RawStop(Some(""), None, Some(Iso(1600000))),
           Some(""), Some("17"), None)
\* no transportation record: parseLegV2 returns null
NoTransportLeg == [BusLeg EXCEPT !.transportation = None]
\* a null element of the legs array: parseLegV2 throws
NullLeg == [BusLeg EXCEPT !.isNull = TRUE]

LegSamples == {WalkHome, WalkPlatform, BusLeg, MetroLeg, NoTransportLeg, NullLeg}

(***************************************************************************)
(* The journey normalizer as a run: a raw journey is put together leg by   *)
(* leg, then handed to parseJourneyToTripProposal.                         *)
(***************************************************************************)
MaxLegs == 5

\* a journey with a legs array, one whose legs field is no array, a null journey
JourneyStarts ==
    {EmptyJourney,
     [EmptyJourney EXCEPT !.legsIsArray = FALSE],
     [EmptyJourney EXCEPT !.isNull = TRUE]}

AddLeg ==
    /\ pc = "input"
    /\ ~journey.isNull /\ journey.legsIsArray
    /\ Len(journey.legs) < MaxLegs
    /\ \E leg \in LegSamples :
          journey' = [journey EXCEPT !.legs = Append(@, leg)]
    /\ UNCHANGED <<pc, proposal, exceptJourney>>

NormalizeJourney ==
    /\ pc = "input"
    /\ proposal' = parseJourneyToTripProposal(journey)
    /\ pc' = "done"
    /\ UNCHANGED <<journey, exceptJourney>>

InitJourney == pc = "input" /\ journey \in JourneyStarts /\ proposal = None
               /\ ClassifierIdle /\ TripsIdle /\ DepIdle /\ CliIdle
NextJourney == AddLeg \/ NormalizeJourney
SpecJourney == InitJourney /\ [][NextJourney]_vars

(***************************************************************************)
(* The trips response as a run: a batch of raw journeys is put together    *)
(* from sample journeys, then handed to parseTripsResponse.                *)
(***************************************************************************)
MaxJourneys == 3

\* no departure time at all: parseLegV2 returns null
NoTimesLeg ==
    RawLeg(<<"B","u","s","s">>,
           RawStop(Some("Odenplan"), Some(EmptyTime), None),
           RawStop(Some("Slussen"), None, Some(Iso(1200000))),
           Some("4"), None, None)
\* a product name that is a number: normalize is no function of it
NumberProductLeg ==
    [MetroLeg EXCEPT !.transportation =
        Some([MetroLeg.transportation[1] EXCEPT !.product =
                 Some([name |-> Some([isString |-> FALSE, chars |-> <<>>])])])]

\* a duration of its own that is negative
NegativeDurationLeg == [BusLeg EXCEPT !.duration = Some(-5)]
\* an arrival text that is no timestamp, and no duration of its own
InvalidArrivalLeg ==
    RawLeg(<<"f","o","o","t","p","a","t","h">>,
           RawStop(Some("Home"), None, Some(Iso(0))),
           RawStop(Some("Odenplan"), None, Some(BadTime)),
           None, None, None)

\* a tram without any line designation
NoLineLeg ==
    RawLeg(<<"T","r","a","m">>,
           RawStop(Some("Sickla"), None, Some(Iso(100000))),
           RawStop(Some("Luma"), None, Some(Iso(300000))),
           None, None, None)

JourneyOf(legs) == [EmptyJourney EXCEPT !.legs = legs]

JourneySamples == {
    [JourneyOf(<<WalkHome, BusLeg>>) EXCEPT !.tripDuration = Some(1500)],
    JourneyOf(<<MetroLeg>>),
    JourneyOf(<<WalkHome, WalkPlatform>>),
    JourneyOf(<<NoTransportLeg, MetroLeg, NoTimesLeg>>),    \* one leg of three parses
    JourneyOf(<<NoTransportLeg, NoTimesLeg>>),              \* no leg parses
    JourneyOf(<<>>),
    [EmptyJourney EXCEPT !.legsIsArray = FALSE],
    [EmptyJourney EXCEPT !.isNull = TRUE],
    JourneyOf(<<BusLeg, NullLeg>>),                         \* a null leg after a ride
    JourneyOf(<<NumberProductLeg, BusLeg>>),
    JourneyOf(<<WalkHome, NegativeDurationLeg>>),
    JourneyOf(<<InvalidArrivalLeg, MetroLeg>>),
    JourneyOf(<<NoLineLeg, WalkPlatform, BusLeg>>)
}

AddJourney ==
    /\ pc = "input"
    /\ data.journeysIsArray
    /\ Len(data.journeys) < MaxJourneys
    /\ \E j \in JourneySamples :
          data' = [data EXCEPT !.journeys = Append(@, j)]
    /\ UNCHANGED <<pc, trips, exceptTrips>>

ParseTripsResponse ==
    /\ pc = "input"
    /\ trips' = parseTripsResponse(data)
    /\ pc' = "done"
    /\ UNCHANGED <<data, exceptTrips>>

InitTrips == /\ pc = "input"
             /\ data \in {EmptyData, [EmptyData EXCEPT !.journeysIsArray = FALSE]}
             /\ trips = <<>>
             /\ ClassifierIdle /\ JourneyIdle /\ DepIdle /\ CliIdle
NextTrips == AddJourney \/ ParseTripsResponse
SpecTrips == InitTrips /\ [][NextTrips]_vars

(***************************************************************************)
(* The departures response as a run: a batch of raw records is put         *)
(* together, then handed to parseDeparturesResponse.  A batch starts       *)
(* empty or with PadLen copies of one on-time record, so that batches of   *)
(* more than 30 records are reached with few steps.                        *)
(***************************************************************************)
MaxExtra == 2
PadLen == 29

NowSamples == {Num(1000000)}

\* the timestamp text of the time `offset` ms after nowTime
At(nowTime, offset) == Some(Iso(nowTime.v + offset))

RawDeparture(scheduled, expected) ==
    [isNull |-> FALSE,
     scheduled |-> scheduled,
     expected |-> expected,
     designation |-> Some("4"),
     transport_mode |-> Some(<<"B","U","S">>),
     destination |-> Some("Slussen"),
     platform |-> None,
     state |-> Some(<<"E","X","P","E","C","T","E","D">>)]

\* on time, five minutes ahead, no expected value of its own
OnTimeDeparture(nowTime) == RawDeparture(At(nowTime, 300000), None)

DepartureSamples(nowTime) == {
    OnTimeDeparture(nowTime),
    \* half a minute ahead
    RawDeparture(At(nowTime, 29999), At(nowTime, 29999)),
    \* expected exactly 60000 ms after scheduled
    RawDeparture(At(nowTime, 120000), At(nowTime, 180000)),
    \* expected 60001 ms after scheduled; cancelled; a metro
    [RawDeparture(At(nowTime, 120000), At(nowTime, 180001)) EXCEPT
        !.state = Some(<<"c","a","n","c","e","l","l","e","d">>),
        !.transport_mode = Some(<<"m","e","t","r","o">>)],
    \* 60001 ms in the past
    RawDeparture(At(nowTime, -60001), None),
    \* 90000 ms in the past
    RawDeparture(At(nowTime, -90000), At(nowTime, -90000)),
    \* 90001 ms in the past
    RawDeparture(At(nowTime, -150000), At(nowTime, -90001)),
    \* a scheduled text that is no timestamp
    RawDeparture(Some(BadTime), None),
    \* an expected text that is no timestamp
    RawDeparture(At(nowTime, 200000), Some(BadTime)),
    \* no scheduled value
    RawDeparture(None, At(nowTime, 100000)),
    \* fifteen minutes ahead, an empty expected text; no line, a ferry
    [RawDeparture(At(nowTime, 900000), Some(EmptyTime)) EXCEPT
        !.designation = None,
        !.transport_mode = Some(<<"F","e","r","r","y">>),
        !.platform = Some("B")],
    \* a null record
    [OnTimeDeparture(nowTime) EXCEPT !.isNull = TRUE]
}

Padding(nowTime, n) == [i \in 1..n |-> OnTimeDeparture(nowTime)]

AddDeparture ==
    /\ pc = "input"
    /\ depData.departuresIsArray
    /\ Len(depData.departures) < MaxExtra
       \/ /\ Len(depData.departures) >= PadLen
          /\ Len(depData.departures) < PadLen + MaxExtra
    /\ \E raw \in DepartureSamples(now) :
          depData' = [depData EXCEPT !.departures = Append(@, raw)]
    /\ UNCHANGED <<pc, now, parsedDeps, departures, exceptDep>>

\* parseDeparturesResponse; parsedDeps keeps what the map stage produced
ParseDeparturesResponse ==
    /\ pc = "input"
    /\ parsedDeps' = IF depData.departuresIsArray
                     THEN MapDepartures(depData, now) ELSE <<>>
    /\ \E procedure \in SortProcedures :
          departures' = parseDeparturesResponse(depData, now, procedure)
    /\ pc' = "done"
    /\ UNCHANGED <<depData, now, exceptDep>>

InitDepartures ==
    /\ pc = "input"
    /\ now \in NowSamples
    /\ depData \in {EmptyDepData,
                    [EmptyDepData EXCEPT !.departuresIsArray = FALSE],
                    [EmptyDepData EXCEPT !.departures = Padding(now, PadLen)]}
    /\ parsedDeps = <<>> /\ departures = <<>>
    /\ ClassifierIdle /\ JourneyIdle /\ TripsIdle /\ CliIdle
NextDepartures == AddDeparture \/ ParseDeparturesResponse
SpecDepartures == InitDepartures /\ [][NextDepartures]_vars

(***************************************************************************)
(* The command line as a run (index.ts).  A run starts from a command      *)
(* line, an environment and a config file; a step is the stretch of a      *)
(* handler between two await points.  What console.log and console.error   *)
(* write is kept as one item per output: [kind, content].                  *)
(***************************************************************************)
Odenplan == <<"O","d","e","n","p","l","a","n">>
Odengatan == <<"O","d","e","n","g","a","t","a","n">>
Slussen == <<"S","l","u","s","s","e","n">>
UppsalaC == <<"U","p","p","s","a","l","a"," ","C">>
Blank == <<" ", " ">>
CoordText == <<"5","9",".","3","4",","," ","1","8",".","0","7">>
OutOfRangeCoordText == <<"9","1",",","1","8">>
DateTimeText == <<"2","0","2","6","-","0","1","-","1","7"," ","0","8",":","3","0">>
TimeText == <<"0","8",":","3","0">>
NotADate == <<"s","o","o","n">>

\* --depart, --at, --arrive
DateOptions == {
    <<None, None, None>>,
    <<Some(DateTimeText), None, None>>,
    <<None, Some(TimeText), None>>,
    <<None, None, Some(IsoDateTimeText)>>,
    <<Some(DateTimeText), None, Some(TimeText)>>,
    <<None, Some(TimeText), Some(TimeText)>>,
    <<None, Some(NotADate), None>>,
    <<None, None, Some(NotADate)>> }

PlanCommands ==
    {[NoCommand EXCEPT !.command = "plan", !.from = from, !.envOrigin = env,
                       !.to = Some(to), !.depart = d[1], !.at = d[2], !.arrive = d[3]] :
        from \in {None, Some(Odenplan), Some(Blank), Some(CoordText)},
        env \in {None, Some(Slussen)},
        to \in {Slussen, Blank, CoordText, OutOfRangeCoordText},
        d \in DateOptions}

NextCommands ==
    {[NoCommand EXCEPT !.command = "next", !.stop = stop, !.near = near,
                       !.minutes = minutes] :
        stop \in {None, Some(<<>>), Some(<<"9","0","0","1">>), Some(<<"1","2","3","4">>),
                  Some(<<"o","d","e","n">>), Some(<<"O","D","E","N","G","A","T","A","N">>),
                  Some(<<"g","a","t","a","n">>), Some(<<"z","z","z">>)},
        near \in {None, Some(CoordText), Some(NotADate)},
        minutes \in {None, Some(0), Some(3)}}

ConfigCommands ==
    {[NoCommand EXCEPT !.command = "config list"]}
    \cup {[NoCommand EXCEPT !.command = "config get", !.key = key] :
            key \in {"origin", "home", "colour"}}
    \cup {[NoCommand EXCEPT !.command = "config set", !.key = key, !.value = value] :
            key \in {"origin", "home", "colour"}, value \in {Odenplan, <<>>}}

\* the global options --json and --plain, and whether stdout is a terminal
Commands ==
    {[c EXCEPT !.json = json, !.plain = plain, !.isTTY = isTTY] :
        c \in PlanCommands \cup NextCommands \cup ConfigCommands,
        json \in BOOLEAN, plain \in BOOLEAN, isTTY \in BOOLEAN}

ConfigFiles == {NoFile, BrokenFile,
                FileOf([origin |-> Odenplan]),
                FileOf([home |-> Slussen, origin |-> Blank])}

\* what searchLocations returns
StopLocation(id, isBest, matchQuality) ==
    [id |-> id, label |-> "Slussen", type |-> "stop",
     coord |-> [lat |-> 59330000, lon |-> 18060000],
     matchQuality |-> matchQuality, isBest |-> isBest]

LocationPayloads == {
    <<>>,
    <<StopLocation("9192", FALSE, Some(800)), StopLocation("9193", TRUE, Some(700))>>,
    <<StopLocation("9192", FALSE, None), StopLocation("9193", FALSE, Some(950)),
      StopLocation("9194", FALSE, Some(950))>> }

\* what fetchSites returns
TransportSite(id, name, coord) ==
    [id |-> id, name |-> name, coord |-> coord, products |-> <<>>]

SampleSites == <<
    TransportSite(<<"9","1","1","7">>, Odengatan, None),
    TransportSite(<<"9","0","0","1">>, Odenplan,
                  Some([lat |-> 59350000, lon |-> 18080000])),
    TransportSite(<<"9","1","9","2">>, Slussen,
                  Some([lat |-> 59330000, lon |-> 18060000])),
    TransportSite(<<"6","0","8","6">>, UppsalaC,
                  Some([lat |-> 59860000, lon |-> 17640000])) >>

SitesPayloads == {<<>>, SampleSites, <<SampleSites[1]>>}

\* a leg whose departure text is no timestamp
BadTimeLeg ==
    RawLeg(<<"B","u","s","s">>,
           RawStop(Some("Odenplan"), None, Some(BadTime)),
           RawStop(Some("Slussen"), None, Some(Iso(1200000))),
           Some("4"), None, Some(600))

TripPayloads == {
    EmptyData,
    [EmptyData EXCEPT !.journeysIsArray = FALSE],
    [EmptyData EXCEPT !.journeys =
        <<[JourneyOf(<<WalkHome, BusLeg, MetroLeg>>) EXCEPT !.tripDuration = Some(1500)],
          JourneyOf(<<WalkHome, WalkPlatform>>)>>],
    [EmptyData EXCEPT !.journeys = <<JourneyOf(<<MetroLeg>>), JourneyOf(<<BusLeg, NullLeg>>)>>],
    [EmptyData EXCEPT !.journeys = <<JourneyOf(<<BadTimeLeg>>)>>] }

DepPayloads(nowTime) == {
    EmptyDepData,
    [EmptyDepData EXCEPT !.departuresIsArray = FALSE],
    [EmptyDepData EXCEPT !.departures =
        <<[RawDeparture(At(nowTime, 900000), Some(EmptyTime)) EXCEPT
              !.transport_mode = Some(<<"F","e","r","r","y">>)],
          OnTimeDeparture(nowTime),
          RawDeparture(At(nowTime, 29999), At(nowTime, 29999)),
          RawDeparture(At(nowTime, 120000), At(nowTime, 180001)),
          RawDeparture(At(nowTime, -150000), At(nowTime, -90001))>>],
    [EmptyDepData EXCEPT !.departures =
        <<OnTimeDeparture(nowTime), RawDeparture(Some(BadTime), None)>>] }

\* a network request as the run's log keeps it
Request(kind, query) == [kind |-> kind, query |-> query, outcome |-> "pending"]

\* the latest request has got its response
Completed(log, outcome) == [log EXCEPT ![Len(log)].outcome = outcome]

\* a failed request that is issued a second time
RequestsAfterFailure_Retry(log) ==
    Append(Completed(log, "failed"), [log[Len(log)] EXCEPT !.outcome = "failed"])

\* if (!response.ok) throw: the request has failed and nothing is issued again
RequestsAfterFailure(log) == Completed(log, "failed")

\* console.log(JSON.stringify({ error })) or console.error(`Error: ...`)
handleError(message, m) ==
    /\ IF m = "json"
       THEN /\ stdout' = Append(stdout, [kind |-> "error", content |-> message])
            /\ UNCHANGED stderr
       ELSE /\ stderr' = Append(stderr, [kind |-> "error", content |-> message])
            /\ UNCHANGED stdout
    /\ exitCode' = 1

\* the catch block of a handler: the handler ends there
Fails(log, message, m) ==
    /\ requests' = log
    /\ handleError(message, m)
    /\ pc' = "exit"

\* the handler issues a request and waits for the response
Awaits(log, request, label) ==
    /\ requests' = Append(log, request)
    /\ UNCHANGED outVars
    /\ pc' = label

\* the handler prints its result and ends
Prints(log, content) ==
    /\ requests' = log
    /\ stdout' = Append(stdout, [kind |-> "result", content |-> content])
    /\ UNCHANGED <<stderr, exitCode>>
    /\ pc' = "exit"

\* the handler throws outside a try block: parseAsync rejects
Rejects(message, m) ==
    /\ rejection' = Some(message)
    /\ outputMode' = m
    /\ pc' = "rejected"
    /\ UNCHANGED <<requests, outVars>>

(***************************************************************************)
(* plan                                                                    *)
(***************************************************************************)
\* opts.to?.trim(): --to is a required option
ToValue == IF opts.to = None THEN <<>> ELSE Trim(opts.to[1])

\* the checks of the plan handler before its first await: the message of
\* the error thrown, or None
PlanInputError ==
    LET fromValue == resolveOrigin(opts.from, opts.envOrigin, configFile)
        departValue == IF TruthyChars(opts.depart) THEN opts.depart ELSE opts.at
        arriveValue == opts.arrive
        parsedDateTime ==
            IF TruthyChars(departValue) THEN parseDateTimeInput(departValue[1])
            ELSE IF TruthyChars(arriveValue) THEN parseDateTimeInput(arriveValue[1])
            ELSE None
    IN  IF fromValue.threw THEN Some(fromValue.message)
        ELSE IF fromValue.value = None
        THEN Some("Missing origin. Provide --from or set config origin.")
        ELSE IF ToValue = <<>> THEN Some("Missing destination (--to).")
        ELSE IF TruthyChars(departValue) /\ TruthyChars(arriveValue)
        THEN Some("Use either --depart/--at or --arrive, not both.")
        ELSE IF (TruthyChars(departValue) \/ TruthyChars(arriveValue))
                /\ parsedDateTime = None
        THEN Some("Invalid date/time format.")
        ELSE None

\* the location resolveLocationInput returns for a coordinate
CoordLocation(coord) == Some([kind |-> "coord", lat |-> coord.lat, lon |-> coord.lon])

\* the location resolveLocationInput returns for what resolveLocation found
IdLocation(found) ==
    IF found = None THEN None
    ELSE Some([kind |-> "id", id |-> found[1].id, label |-> found[1].label,
               coord |-> found[1].coord])

\* lines 66-82: both inputs are resolved, the trip search is issued
SearchTrips(log, origin, destination, m) ==
    /\ resolved' = [resolved EXCEPT !.origin = origin, !.destination = destination]
    /\ IF origin = None \/ destination = None
       THEN Fails(log, "Failed to resolve origin or destination.", m)
       ELSE Awaits(log, Request("trips", <<>>), "plan:trips")

\* line 64: resolveLocationInput(toValue)
ResolveDestination(log, origin, m) ==
    \E coord \in {parseCoordInput(ToValue)} :
        IF coord # None THEN SearchTrips(log, origin, CoordLocation(coord[1]), m)
        ELSE /\ resolved' = [resolved EXCEPT !.origin = origin]
             /\ Awaits(log, Request("stop-finder", ToValue), "plan:destination")

PlanStart ==
    /\ pc = "start"
    /\ opts.command = "plan"
    /\ \E m \in {resolveOutputMode(opts.json, opts.plain, opts.isTTY)},
          inputError \in {PlanInputError},
          fromValue \in {resolveOrigin(opts.from, opts.envOrigin, configFile).value} :
           IF m.threw THEN Rejects(m.message, None) /\ UNCHANGED resolved
           ELSE
           /\ outputMode' = Some(m.value)
           /\ UNCHANGED rejection
           /\ IF inputError # None
              THEN Fails(requests, inputError[1], m.value) /\ UNCHANGED resolved
              ELSE \E coord \in {parseCoordInput(fromValue[1])} :
                       IF coord # None
                       THEN ResolveDestination(requests, CoordLocation(coord[1]), m.value)
                       ELSE /\ Awaits(requests, Request("stop-finder", fromValue[1]),
                                      "plan:origin")
                            /\ UNCHANGED resolved
    /\ UNCHANGED <<opts, fetchedSites, configFile, classifierVars, journeyVars, tripsVars, depVars>>

PlanOriginResponse ==
    /\ pc = "plan:origin"
    /\ \/ /\ Fails(RequestsAfterFailure(requests), "Stop-finder failed: HTTP 500",
                   outputMode[1])
          /\ UNCHANGED resolved
       \/ \E results \in LocationPayloads :
             ResolveDestination(Completed(requests, "ok"),
                                IdLocation(resolveLocationIn(results)), outputMode[1])
    /\ UNCHANGED <<opts, fetchedSites, configFile, outputMode, rejection,
                   classifierVars, journeyVars, tripsVars, depVars>>

PlanDestinationResponse ==
    /\ pc = "plan:destination"
    /\ \/ /\ Fails(RequestsAfterFailure(requests), "Stop-finder failed: HTTP 500",
                   outputMode[1])
          /\ UNCHANGED resolved
       \/ \E results \in LocationPayloads :
             SearchTrips(Completed(requests, "ok"), resolved.origin,
                         IdLocation(resolveLocationIn(results)), outputMode[1])
    /\ UNCHANGED <<opts, fetchedSites, configFile, outputMode, rejection,
                   classifierVars, journeyVars, tripsVars, depVars>>

\* Date.prototype.toISOString throws a RangeError on an invalid date
buildTripsOutput(tripList) ==
    IF \E i \in 1..Len(tripList) :
          \/ tripList[i].departureTime.nan \/ tripList[i].arrivalTime.nan
          \/ \E k \in 1..Len(tripList[i].legs) :
                \/ tripList[i].legs[k].departureTime.nan
                \/ tripList[i].legs[k].arrivalTime.nan
    THEN Throw("Invalid time value")
    ELSE Ok([i \in 1..Len(tripList) |->
                LET trip == tripList[i]
                    transportLegs == SelectSeq(trip.legs, LAMBDA leg : leg.type # "walk")
                IN  [departureTime |-> trip.departureTime,
                     arrivalTime |-> trip.arrivalTime,
                     durationMinutes |-> trip.durationMinutes,
                     changes |-> IF Len(transportLegs) > 1 THEN Len(transportLegs) - 1 ELSE 0,
                     summary |-> trip.routeSummary,
                     legs |-> [k \in 1..Len(trip.legs) |->
                                 [type |-> trip.legs[k].type,
                                  line |-> trip.legs[k].line,
                                  durationMinutes |->
                                      MaxZero(RoundDiv(trip.legs[k].durationSeconds, 60))]]]])

\* what printTrips writes
printTrips(output, m) == [format |-> m, trips |-> output]

PlanTripsResponse ==
    /\ pc = "plan:trips"
    /\ \/ /\ Fails(RequestsAfterFailure(requests), "Trip search failed: HTTP 500",
                   outputMode[1])
          /\ UNCHANGED tripsVars
       \/ \E payload \in TripPayloads :
             \E parsed \in {parseTripsResponse(payload)} :
             \E output \in {buildTripsOutput(parsed)} :
                 /\ data' = payload
                 /\ trips' = parsed
                 /\ IF output.threw
                    THEN Fails(Completed(requests, "ok"), output.message, outputMode[1])
                    ELSE Prints(Completed(requests, "ok"),
                                printTrips(output.value, outputMode[1]))
    /\ UNCHANGED <<opts, fetchedSites, configFile, outputMode, rejection, resolved,
                   classifierVars, journeyVars, depVars>>

(***************************************************************************)
(* next                                                                    *)
(***************************************************************************)
NextStart ==
    /\ pc = "start"
    /\ opts.command = "next"
    /\ \E m \in {resolveOutputMode(opts.json, opts.plain, opts.isTTY)} :
           IF m.threw THEN Rejects(m.message, None)
           ELSE
           /\ outputMode' = Some(m.value)
           /\ UNCHANGED rejection
           /\ IF ~TruthyChars(opts.stop) /\ ~TruthyChars(opts.near)
              THEN Fails(requests, "Provide --stop or --near.", m.value)
              ELSE Awaits(requests, Request("sites", <<>>), "next:sites")
    /\ UNCHANGED <<opts, fetchedSites, configFile, resolved,
                   classifierVars, journeyVars, tripsVars, depVars>>

NextSitesResponse ==
    /\ pc = "next:sites"
    /\ \/ /\ Fails(RequestsAfterFailure(requests), "Sites fetch failed: HTTP 500",
                   outputMode[1])
          /\ UNCHANGED <<resolved, fetchedSites>>
       \/ \E sites \in SitesPayloads :
             /\ fetchedSites' = sites
             /\ \E site \in {resolveSiteIn(sites, opts.stop, opts.near)},
                   log \in {Completed(requests, "ok")} :
                 IF site.threw
                 THEN Fails(log, site.message, outputMode[1]) /\ UNCHANGED resolved
                 ELSE IF site.value = None
                 THEN Fails(log, "Unable to resolve stop.", outputMode[1])
                      /\ UNCHANGED resolved
                 ELSE /\ resolved' = [resolved EXCEPT !.site = site.value]
                      /\ Awaits(log, Request("departures", site.value[1].id),
                                "next:departures")
    /\ UNCHANGED <<opts, configFile, outputMode, rejection,
                   classifierVars, journeyVars, tripsVars, depVars>>

\* maxMinutes ? departures.filter(...) : departures
FilterByMinutes(list, minutes) ==
    IF minutes # None /\ minutes[1] # 0
    THEN SelectSeq(list, LAMBDA d : ~d.minutesUntil.nan /\ d.minutesUntil.v <= minutes[1])
    ELSE list

\* the JSON and the plain form call toISOString on both times of every
\* departure; the pretty form does not
printDepartures(site, list, m) ==
    IF /\ m \in {"json", "plain"}
       /\ \E i \in 1..Len(list) : list[i].scheduledTime.nan \/ list[i].expectedTime.nan
    THEN Throw("Invalid time value")
    ELSE Ok([format |-> m, site |-> [id |-> site.id, name |-> site.name],
             departures |-> list])

NextDeparturesResponse ==
    /\ pc = "next:departures"
    /\ \/ /\ Fails(RequestsAfterFailure(requests), "Departures fetch failed: HTTP 500",
                   outputMode[1])
          /\ UNCHANGED <<depData, parsedDeps, departures>>
       \/ \E payload \in DepPayloads(now), procedure \in SortProcedures :
             \E list \in {parseDeparturesResponse(payload, now, procedure)} :
             \E filtered \in {FilterByMinutes(list, opts.minutes)} :
             \E printed \in {printDepartures(resolved.site[1], filtered, outputMode[1])} :
                 /\ depData' = payload
                 /\ parsedDeps' = IF payload.departuresIsArray
                                  THEN MapDepartures(payload, now) ELSE <<>>
                 /\ departures' = list
                 /\ IF printed.threw
                    THEN Fails(Completed(requests, "ok"), printed.message, outputMode[1])
                    ELSE Prints(Completed(requests, "ok"), printed.value)
    /\ UNCHANGED <<opts, fetchedSites, configFile, outputMode, rejection, resolved, now,
                   classifierVars, journeyVars, tripsVars>>

(***************************************************************************)
(* config list / get / set: no try block, a throw rejects parseAsync       *)
(***************************************************************************)
ConfigList ==
    /\ pc = "start"
    /\ opts.command = "config list"
    /\ \E m \in {resolveOutputMode(opts.json, opts.plain, opts.isTTY)},
          cfg \in {readConfig(configFile)} :
           IF m.threw THEN Rejects(m.message, None)
           ELSE IF cfg.threw THEN Rejects(cfg.message, Some(m.value))
           ELSE /\ outputMode' = Some(m.value)
                /\ UNCHANGED rejection
                /\ Prints(requests,
                          IF m.value = "json" THEN cfg.value
                          ELSE [i \in 1..Len(CONFIG_KEYS) |->
                                  <<CONFIG_KEYS[i],
                                    IF ConfigValue(cfg.value, CONFIG_KEYS[i]) = None
                                    THEN <<>>
                                    ELSE ConfigValue(cfg.value, CONFIG_KEYS[i])[1]>>])
    /\ UNCHANGED <<opts, fetchedSites, configFile, resolved,
                   classifierVars, journeyVars, tripsVars, depVars>>

ConfigGet ==
    /\ pc = "start"
    /\ opts.command = "config get"
    /\ \E m \in {resolveOutputMode(opts.json, opts.plain, opts.isTTY)},
          cfg \in {readConfig(configFile)} :
           IF m.threw THEN Rejects(m.message, None)
           ELSE IF assertConfigKey(opts.key).threw
           THEN Rejects(assertConfigKey(opts.key).message, Some(m.value))
           ELSE IF cfg.threw THEN Rejects(cfg.message, Some(m.value))
           ELSE /\ outputMode' = Some(m.value)
                /\ UNCHANGED rejection
                /\ Prints(requests, [format |-> m.value, key |-> opts.key,
                                     value |-> ConfigValue(cfg.value, opts.key)])
    /\ UNCHANGED <<opts, fetchedSites, configFile, resolved,
                   classifierVars, journeyVars, tripsVars, depVars>>

ConfigSet ==
    /\ pc = "start"
    /\ opts.command = "config set"
    /\ \E m \in {resolveOutputMode(opts.json, opts.plain, opts.isTTY)},
          cfg \in {readConfig(configFile)} :
           IF m.threw THEN Rejects(m.message, None) /\ UNCHANGED configFile
           ELSE IF assertConfigKey(opts.key).threw
           THEN /\ Rejects(assertConfigKey(opts.key).message, Some(m.value))
                /\ UNCHANGED configFile
           ELSE IF cfg.threw
           THEN Rejects(cfg.message, Some(m.value)) /\ UNCHANGED configFile
           ELSE /\ configFile' = writeConfig(ConfigWith(cfg.value, opts.key, opts.value))
                /\ outputMode' = Some(m.value)
                /\ UNCHANGED rejection
                /\ Prints(requests, [format |-> m.value, key |-> opts.key,
                                     value |-> Some(opts.value)])
    /\ UNCHANGED <<opts, fetchedSites, resolved, classifierVars, journeyVars, tripsVars, depVars>>

(***************************************************************************)
(* program.parseAsync(process.argv).catch(...)                             *)
(***************************************************************************)
\* the catch handler resolves the output mode once more; when that throws,
\* the promise the catch returned is rejected and nothing handles it
CatchRejection ==
    /\ pc = "rejected"
    /\ \E m \in {resolveOutputMode(opts.json, opts.plain, opts.isTTY)} :
           IF m.threw
           THEN /\ rejection' = Some(m.message)
                /\ pc' = "unhandled"
                /\ UNCHANGED <<outputMode, outVars>>
           ELSE /\ outputMode' = Some(m.value)
                /\ handleError(rejection[1], m.value)
                /\ pc' = "exit"
                /\ UNCHANGED rejection
    /\ UNCHANGED <<opts, fetchedSites, configFile, requests, resolved,
                   classifierVars, journeyVars, tripsVars, depVars>>

\* what the runtime does with an unhandled rejection is its own policy:
\* it ends the process with the error's stack on the error stream and exit
\* code 1, or prints a warning, or does nothing, and exits with 0
UnhandledRejectionPolicies == {"throw", "warn", "none"}

UnhandledRejection ==
    /\ pc = "unhandled"
    /\ \E policy \in UnhandledRejectionPolicies :
          /\ stderr' = IF policy = "none" THEN stderr
                       ELSE Append(stderr, [kind |-> IF policy = "throw" THEN "uncaught"
                                                     ELSE "warning",
                                            content |-> rejection[1]])
          /\ exitCode' = IF policy = "throw" THEN 1 ELSE exitCode
    /\ pc' = "exit"
    /\ UNCHANGED <<opts, fetchedSites, configFile, outputMode, requests, stdout, resolved, rejection,
                   classifierVars, journeyVars, tripsVars, depVars>>

InitCli ==
    /\ pc = "start"
    /\ opts \in Commands
    /\ configFile \in (IF opts.command = "next" THEN {NoFile} ELSE ConfigFiles)
    /\ outputMode = None /\ requests = <<>> /\ NothingWritten
    /\ resolved = NothingResolved /\ rejection = None
    /\ fetchedSites = <<>>
    /\ now \in NowSamples
    /\ depData = EmptyDepData /\ parsedDeps = <<>> /\ departures = <<>>
    /\ ClassifierIdle /\ JourneyIdle /\ TripsIdle
NextCli ==
    \/ PlanStart \/ PlanOriginResponse \/ PlanDestinationResponse \/ PlanTripsResponse
    \/ NextStart \/ NextSitesResponse \/ NextDeparturesResponse
    \/ ConfigList \/ ConfigGet \/ ConfigSet
    \/ CatchRejection \/ UnhandledRejection
SpecCli == InitCli /\ [][NextCli]_vars

(***************************************************************************)
(* Stop resolution as a run: a list of sites is put together from sample   *)
(* sites, then resolveSite goes on from the point where fetchSites has     *)
(* returned that list.                                                     *)
(***************************************************************************)
MaxSites == 3

NyaOdenplan == <<"N","y","a"," ","O","d","e","n","p","l","a","n">>
OdenUpper == <<"O","D","E","N">>

SiteSamples == {
    TransportSite(<<"9","1","1","7">>, Odengatan, None),
    TransportSite(<<"9","0","0","1">>, Odenplan,
                  Some([lat |-> 59350000, lon |-> 18080000])),
    \* as far from the target as Odenplan
    TransportSite(<<"9","0","0","2">>, NyaOdenplan,
                  Some([lat |-> 59350000, lon |-> 18080000])),
    TransportSite(<<"9","1","9","2">>, Slussen,
                  Some([lat |-> 59330000, lon |-> 18060000])),
    TransportSite(<<"9","0","0","3">>, OdenUpper,
                  Some([lat |-> 59340000, lon |-> 18050000])),
    \* the id of Odenplan once more
    TransportSite(<<"9","0","0","1">>, UppsalaC,
                  Some([lat |-> 59860000, lon |-> 17640000])) }

\* --stop and --near of the call
SiteQueries ==
    {[NoCommand EXCEPT !.command = "next", !.stop = stop, !.near = near] :
        stop \in {None, Some(<<"9","0","0","1">>), Some(<<" ","1","2","3","4"," ">>),
                  Some(<<"o","d","e","n">>), Some(<<"O","D","E","N","P","L","A","N">>),
                  Some(<<"p","l","a","n">>), Some(<<"z","z","z">>), Some(Blank)},
        near \in {None, Some(CoordText)}}

AddSite ==
    /\ pc = "input"
    /\ Len(fetchedSites) < MaxSites
    /\ \E site \in SiteSamples : fetchedSites' = Append(fetchedSites, site)
    /\ UNCHANGED <<pc, opts, configFile, outputMode, requests, outVars, resolved,
                   rejection, classifierVars, journeyVars, tripsVars, depVars>>

\* resolveSite from the return of fetchSites on
ResolveSite ==
    /\ pc = "input"
    /\ \E site \in {resolveSiteIn(fetchedSites, opts.stop, opts.near)} :
          /\ resolved' = [resolved EXCEPT !.site = site.value]
          /\ rejection' = IF site.threw THEN Some(site.message) ELSE None
    /\ pc' = "done"
    /\ UNCHANGED <<opts, fetchedSites, configFile, outputMode, requests, outVars,
                   classifierVars, journeyVars, tripsVars, depVars>>

InitSites ==
    /\ pc = "input"
    /\ opts \in SiteQueries
    /\ configFile = NoFile /\ outputMode = None /\ requests = <<>> /\ NothingWritten
    /\ resolved = NothingResolved /\ rejection = None
    /\ fetchedSites = <<>>
    /\ ClassifierIdle /\ JourneyIdle /\ TripsIdle /\ DepIdle
NextSites == AddSite \/ ResolveSite
SpecSites == InitSites /\ [][NextSites]_vars

(***************************************************************************)
(* The classifier's contract, stated over the table of token groups.       *)
(***************************************************************************)
LegKinds == {"walk", "metro", "train", "tram", "ship", "bus"}

TokenGroups == <<
    [kind |-> "walk",  tokens |-> {FOOTPATH, FOOT, WALK}],
    [kind |-> "metro", tokens |-> {TUNNELBANA, METRO}],
    [kind |-> "train", tokens |-> {PENDEL, TAG, TRAIN}],
    [kind |-> "tram",  tokens |-> {SPARV, TRAM}],
    [kind |-> "ship",  tokens |-> {BAT, SHIP, FERRY}],
    [kind |-> "bus",   tokens |-> {BUS}] >>

\* the groups one of whose tokens occurs in the stripped, upper-cased name
MatchingGroups(name) ==
    LET text == ToUpperCase(StripCombining(NormalizeNFD(name)))
    IN  {g \in 1..Len(TokenGroups) : \E t \in TokenGroups[g].tokens : Includes(text, t)}

FirstGroupKind(name) ==
    IF MatchingGroups(name) = {} THEN "bus"
    ELSE TokenGroups[Min(MatchingGroups(name))].kind

\* C10: mapTransportTypeV2 is total and returns the kind of the first group, in
\* the order walk, metro, train, tram, ship, bus, one of whose tokens occurs in
\* the diacritic-stripped upper-cased name, and bus when no token occurs.
C10_ClassifierPriority ==
    legType # None =>
        /\ legType[1] \in LegKinds
        /\ legType[1] = FirstGroupKind(productName)

\* a classified name that holds tokens of two groups (metro and train)
C10_Witness ==
    /\ legType # None
    /\ {2, 3} \subseteq MatchingGroups(productName)
    /\ 1 \notin MatchingGroups(productName)
    /\ legType[1] = "metro"

(***************************************************************************)
(* The journey normalizer's contract.                                      *)
(***************************************************************************)
\* the legs parseLegV2 returned for the journey at hand, in input order
ParsedOfJourney == ParsedLegs(journey.legs)

BothWalk(a, b) == a.type = "walk" /\ b.type = "walk"

\* C1: a returned proposal has at least one leg and no two adjacent walk legs.
C1_NoAdjacentWalks ==
    proposal # None =>
        /\ Len(proposal[1].legs) >= 1
        /\ \A i \in 1..(Len(proposal[1].legs) - 1) :
              ~BothWalk(proposal[1].legs[i], proposal[1].legs[i + 1])

\* a proposal returned for a journey with two adjacent parsed walk legs
C1_Witness ==
    /\ pc = "done" /\ proposal # None
    /\ \E i \in 1..(Len(ParsedOfJourney) - 1) :
          BothWalk(ParsedOfJourney[i], ParsedOfJourney[i + 1])

\* the positions at which a maximal run of walk legs, or a non-walk leg, starts
RunStarts(P) == {i \in 1..Len(P) : i = 1 \/ ~BothWalk(P[i - 1], P[i])}
\* the last position of the run that starts at s
RunEnd(P, s) ==
    CHOOSE e \in s..Len(P) :
        /\ \A k \in (s + 1)..e : k \notin RunStarts(P)
        /\ e = Len(P) \/ (e + 1) \in RunStarts(P)
\* the start of the k-th run
NthStart(P, k) ==
    CHOOSE s \in RunStarts(P) : Cardinality({t \in RunStarts(P) : t <= s}) = k

RECURSIVE DurationOfRun(_, _, _)
DurationOfRun(P, s, e) ==
    IF s = e THEN P[s].durationSeconds
    ELSE NumAdd(DurationOfRun(P, s, e - 1), P[e].durationSeconds)

\* C2: every maximal run of walk legs becomes one walk leg that sums the run's
\* durations, departs as the run's first leg does and arrives as its last leg
\* does; the other legs are kept as they are, in their order.
C2_WalkRunsMerged ==
    proposal # None =>
        LET P == ParsedOfJourney
            out == proposal[1].legs
        IN  /\ Len(out) = Cardinality(RunStarts(P))
            /\ \A k \in 1..Len(out) :
                  LET s == NthStart(P, k)
                      e == RunEnd(P, s)
                  IN  IF P[s].type = "walk"
                      THEN /\ out[k].type = "walk"
                           /\ out[k].durationSeconds = DurationOfRun(P, s, e)
                           /\ out[k].departureTime = P[s].departureTime
                           /\ out[k].originName = P[s].originName
                           /\ out[k].arrivalTime = P[e].arrivalTime
                           /\ out[k].destinationName = P[e].destinationName
                      ELSE s = e /\ out[k] = P[s]

\* a proposal for a journey with a run of two different walk legs and a ride
C2_Witness ==
    /\ pc = "done" /\ proposal # None
    /\ \E s \in RunStarts(ParsedOfJourney) :
          /\ RunEnd(ParsedOfJourney, s) > s
          /\ ParsedOfJourney[s] # ParsedOfJourney[RunEnd(ParsedOfJourney, s)]
    /\ \E i \in 1..Len(ParsedOfJourney) : ParsedOfJourney[i].type # "walk"

(***************************************************************************)
(* The trips response's contract.                                          *)
(***************************************************************************)
\* a leg parseLegV2 returns a TripLeg for
Parseable(rawLeg) == ~parseLegV2(rawLeg).threw /\ parseLegV2(rawLeg).value # None

\* a journey with a non-empty legs list that holds a parseable leg
Qualifies(j) ==
    /\ ~j.isNull /\ j.legsIsArray
    /\ \E i \in 1..Len(j.legs) : Parseable(j.legs[i])

\* the proposal of a journey's parseable legs
ProposalOfParseable(j) ==
    parseJourneyToTripProposal([j EXCEPT !.legs = SelectSeq(j.legs, Parseable)])[1]

ExpectedTrips(d) ==
    LET qualifying == SelectSeq(d.journeys, Qualifies)
    IN  [k \in 1..Len(qualifying) |-> ProposalOfParseable(qualifying[k])]

\* C9: parseTripsResponse returns, in input order, one proposal for each journey
\* that has a non-empty legs list with a parseable leg, and nothing else; a leg
\* that does not parse drops its journey only when no leg of the journey parses.
C9_OneProposalPerUsableJourney ==
    pc = "done" /\ data.journeysIsArray => trips = ExpectedTrips(data)

(***************************************************************************)
(* The departure normalizer's contract.                                    *)
(***************************************************************************)
\* a <= b; false when either is NaN
NumLe(a, b) == ~a.nan /\ ~b.nan /\ a.v <= b.v

\* the records that survive normalization, in input order
Survivors == NonNull(parsedDeps)

CountIn(list, x) == Cardinality({i \in 1..Len(list) : list[i] = x})

\* C3: the returned list is sorted non-decreasing by expected time, has at most
\* 30 entries, and holds the earliest survivors: a survivor that is earlier than
\* a returned entry is returned itself.
C3_SortedAndCapped ==
    pc = "done" =>
        /\ \A i \in 1..(Len(departures) - 1) :
              NumLe(departures[i].expectedTime, departures[i + 1].expectedTime)
        /\ Len(departures) <= MaxDepartures
        /\ \A i \in 1..Len(Survivors) : \A k \in 1..Len(departures) :
              NumLt(CompareExpected(Survivors[i], departures[k]), 0)
                  => CountIn(departures, Survivors[i]) = CountIn(Survivors, Survivors[i])

\* C4: every returned departure has minutesUntil >= 0.
C4_MinutesUntilNonNegative ==
    \A k \in 1..Len(departures) :
        ~departures[k].minutesUntil.nan /\ departures[k].minutesUntil.v >= 0

\* the expected time a raw record states: its expected text, else its scheduled text
StatedExpected(raw) ==
    IF TruthyTime(raw.expected) THEN raw.expected
    ELSE IF TruthyTime(raw.scheduled) THEN raw.scheduled
    ELSE None

\* the raw record states a valid expected time more than `age` ms before now
OlderThan(raw, age) ==
    /\ ~raw.isNull
    /\ StatedExpected(raw) # None
    /\ StatedExpected(raw)[1].kind = "iso"
    /\ now.v - StatedExpected(raw)[1].ms > age

\* no record, and no returned departure, is more than `age` ms in the past
NoneOlderThan(age) ==
    pc = "done" =>
        /\ \A i \in 1..Len(parsedDeps) :
              OlderThan(depData.departures[i], age) => parsedDeps[i] = None
        /\ \A k \in 1..Len(departures) :
              ~NumGt(NumSub(now, departures[k].expectedTime), age)

\* C5, as stated: a departure whose expected time is more than 60000 ms before
\* now never appears in the output.
C5_NoneOlderThanOneMinute == NoneOlderThan(60000)

\* C5, amended: a departure whose expected time is more than 90000 ms before now
\* (its rounded minutesUntil is below -1) never appears in the output.
C5_NoneOlderThanNinetySeconds == NoneOlderThan(90000)

\* a batch with a record 90001 ms in the past has been normalized
C5_Witness ==
    /\ pc = "done"
    /\ \E i \in 1..Len(parsedDeps) :
          /\ OlderThan(depData.departures[i], 90000)
          /\ ~OlderThan(depData.departures[i], 90001)
          /\ TruthyTime(depData.departures[i].scheduled)
          /\ parsedDeps[i] = None

\* C6: a departure is flagged delayed exactly when its expected time is more than
\* 60000 ms after its scheduled time, the expected time being the scheduled time
\* when the record states no expected time of its own.
C6_DelayFlag ==
    pc = "done" =>
        /\ \A i \in 1..Len(parsedDeps) :
              parsedDeps[i] # None =>
                  LET raw == depData.departures[i]
                      sched == raw.scheduled[1]
                      exp == IF TruthyTime(raw.expected) THEN raw.expected[1] ELSE sched
                  IN  /\ parsedDeps[i][1].isDelayed <=>
                            /\ sched.kind = "iso" /\ exp.kind = "iso"
                            /\ exp.ms - sched.ms > 60000
                      /\ ~TruthyTime(raw.expected) =>
                            /\ parsedDeps[i][1].expectedTime = parsedDeps[i][1].scheduledTime
                            /\ ~parsedDeps[i][1].isDelayed
        /\ \A k \in 1..Len(departures) :
              \E i \in 1..Len(Survivors) : departures[k] = Survivors[i]

\* a returned list with a departure 60001 ms late, flagged, and one 60000 ms
\* late, not flagged
C6_Witness ==
    /\ pc = "done"
    /\ \E k \in 1..Len(departures) :
          /\ departures[k].isDelayed
          /\ NumSub(departures[k].expectedTime, departures[k].scheduledTime) = Num(60001)
    /\ \E k \in 1..Len(departures) :
          /\ ~departures[k].isDelayed
          /\ NumSub(departures[k].expectedTime, departures[k].scheduledTime) = Num(60000)

(***************************************************************************)
(* The command line's contract.                                            *)
(***************************************************************************)
\* every request but the latest has been answered, and answered well: a
\* request is issued only once the one before it has completed, and none
\* follows a failed one
OneAtATimeNoRetry ==
    \A i \in 1..(Len(requests) - 1) : requests[i].outcome = "ok"

\* C7 as stated: a run issues at most two network requests, one after the
\* other, and never issues a request again after a failure.
C7_AtMostTwoRequests == Len(requests) <= 2 /\ OneAtATimeNoRetry

\* C7 amended: a run issues at most three network requests (plan: up to two
\* location searches, then the trip search), one after the other, and never
\* issues a request again after a failure.
C7_AtMostThreeRequests == Len(requests) <= 3 /\ OneAtATimeNoRetry

\* a plan run that has searched both places and the trips, and printed
C7_Witness ==
    /\ pc = "exit"
    /\ opts.command = "plan"
    /\ Len(requests) = 3
    /\ \A i \in 1..3 : requests[i].outcome = "ok"
    /\ Len(stdout) = 1 /\ stdout[1].kind = "result"

WithCoord(list) == {i \in 1..Len(list) : list[i].coord # None}

\* the distance from the site at position i to the target
DistanceTo(list, i, target) ==
    haversineDistance(target.lat, target.lon, list[i].coord[1].lat, list[i].coord[1].lon)

\* the first position among those nearest to the target
FirstNearest(list, target) ==
    Min({i \in WithCoord(list) :
            \A k \in WithCoord(list) :
                DistanceTo(list, i, target) <= DistanceTo(list, k, target)})

\* C11: findNearestSite returns none exactly when no site carries a
\* coordinate; otherwise it returns the first site in list order among the
\* sites with a coordinate that are nearest to the target, never a site
\* without a coordinate.
C11_NearestFirstMinimum ==
    (pc = "done" /\ TruthyChars(opts.near)) =>
        LET target == parseCoordInput(opts.near[1])[1]
        IN  /\ (resolved.site = None) <=> (WithCoord(fetchedSites) = {})
            /\ WithCoord(fetchedSites) # {} =>
                  /\ resolved.site = Some(fetchedSites[FirstNearest(fetchedSites, target)])
                  /\ resolved.site[1].coord # None

\* two sites equally near, a site without a coordinate before them, and the
\* first of the two returned
C11_Witness ==
    /\ pc = "done" /\ TruthyChars(opts.near)
    /\ Len(fetchedSites) = 3
    /\ fetchedSites[1].coord = None
    /\ fetchedSites[2].coord # None /\ fetchedSites[3].coord = fetchedSites[2].coord
    /\ fetchedSites[2] # fetchedSites[3]
    /\ resolved.site = Some(fetchedSites[2])

\* the --stop query as resolveSite compares it
StopQuery == Trim(opts.stop[1])

\* resolveSite was called with a --stop query and without --near
ByStop == pc = "done" /\ ~TruthyChars(opts.near) /\ TruthyChars(opts.stop)

\* C12: for a --stop query of digits only, resolveSite returns the first
\* site of the list whose id equals the query, and when there is none a site
\* whose id and name are the query and whose product list is empty; it never
\* returns none.
C12_NumericQueryAlwaysResolves ==
    (ByStop /\ IsDigits(StopQuery)) =>
        LET sameId == {i \in 1..Len(fetchedSites) : fetchedSites[i].id = StopQuery}
        IN  /\ rejection = None
            /\ resolved.site # None
            /\ sameId # {} => resolved.site[1] = fetchedSites[Min(sameId)]
            /\ sameId = {} => /\ resolved.site[1].id = StopQuery
                              /\ resolved.site[1].name = StopQuery
                              /\ resolved.site[1].products = <<>>

\* a list of three sites none of which has the id asked for
C12_Witness ==
    /\ ByStop /\ StopQuery = <<"1","2","3","4">>
    /\ Len(fetchedSites) = 3
    /\ resolved.site # None
    /\ resolved.site[1].name = <<"1","2","3","4">>

\* the positions of the sites whose lower-cased name passes the test
NamesThat(Test(_)) ==
    {i \in 1..Len(fetchedSites) : Test(ToLowerCase(fetchedSites[i].name))}

\* C13: for a --stop query that is not of digits only, resolveSite returns
\* none exactly when no site name contains the query, case ignored;
\* otherwise the first site whose name equals the query, else the first
\* whose name starts with it, else the first whose name contains it; the
\* name of the site returned contains the query.
C13_ExactThenPrefixThenFirst ==
    (ByStop /\ ~IsDigits(StopQuery)) =>
        LET query == ToLowerCase(StopQuery)
            containing == NamesThat(LAMBDA name : Includes(name, query))
            equal == NamesThat(LAMBDA name : name = query)
            starting == NamesThat(LAMBDA name : StartsWith(name, query))
            preferred == IF equal # {} THEN equal
                         ELSE IF starting # {} THEN starting ELSE containing
        IN  /\ rejection = None
            /\ (resolved.site = None) <=> (containing = {})
            /\ containing # {} =>
                  /\ resolved.site = Some(fetchedSites[Min(preferred)])
                  /\ Includes(ToLowerCase(resolved.site[1].name), query)

\* a name that only contains the query, then one that starts with it, then
\* one that equals it: the last is returned
C13_Witness ==
    /\ ByStop /\ StopQuery = <<"o","d","e","n">>
    /\ Len(fetchedSites) = 3
    /\ fetchedSites[1].name = NyaOdenplan
    /\ fetchedSites[2].name = Odenplan
    /\ fetchedSites[3].name = OdenUpper
    /\ resolved.site = Some(fetchedSites[3])

(***************************************************************************)
(* The contract of the legs of a proposal.                                 *)
(***************************************************************************)
\* C14: every leg of every proposal has a duration that is a number and is
\* at least 0, whether it came from the source or from the times, also
\* after the merge of walk legs.
C14_DurationsNonNegative ==
    pc = "done" =>
        \A t \in 1..Len(trips) : \A k \in 1..Len(trips[t].legs) :
            /\ ~trips[t].legs[k].durationSeconds.nan
            /\ trips[t].legs[k].durationSeconds.v >= 0

\* the summary built leg by leg from the left; soFar is "" before the first
\* entry
RECURSIVE SummaryFrom(_, _)
SummaryFrom(legs, soFar) ==
    IF legs = <<>> THEN soFar
    ELSE
    LET leg == Head(legs)
        entry == IF leg.line # None /\ leg.line[1] # ""
                 THEN leg.type \o " " \o leg.line[1] ELSE leg.type
    IN  IF leg.type = "walk" THEN SummaryFrom(Tail(legs), soFar)
        ELSE IF soFar = "" THEN SummaryFrom(Tail(legs), entry)
        ELSE SummaryFrom(Tail(legs), soFar \o " -> " \o entry)

\* C15: the route summary of a proposal is "walk" exactly when the proposal
\* has no leg other than walks; otherwise it lists, in leg order and joined
\* by " -> ", one entry per leg that is no walk: the kind, and after a space
\* the line when the leg has one.
C15_RouteSummary ==
    pc = "done" =>
        \A t \in 1..Len(trips) :
            LET legs == trips[t].legs
                rides == {k \in 1..Len(legs) : legs[k].type # "walk"}
            IN  /\ (trips[t].routeSummary = "walk") <=> (rides = {})
                /\ rides # {} => trips[t].routeSummary = SummaryFrom(legs, "")

\* a tram without a line, a walk and bus 4; and a journey of walks only
C15_Witness ==
    /\ pc = "done"
    /\ \E t \in 1..Len(trips) :
          /\ Len(trips[t].legs) = 3
          /\ trips[t].legs[2].type = "walk"
          /\ trips[t].routeSummary = "tram -> bus 4"
    /\ \E t \in 1..Len(trips) :
          /\ trips[t].routeSummary = "walk"
          /\ \A k \in 1..Len(trips[t].legs) : trips[t].legs[k].type = "walk"

\* C17: walkToFirstLegSeconds is the sum of the durations of the walk legs
\* before the first leg that is no walk; it is 0 when the first leg is no
\* walk and when every leg is a walk; as walks are merged, at most one walk
\* leg precedes the first other leg, so the value is 0 or that leg's
\* duration.
C17_WalkToFirstLeg ==
    (pc = "done" /\ proposal # None) =>
        LET legs == proposal[1].legs
            rides == {k \in 1..Len(legs) : legs[k].type # "walk"}
            first == IF rides = {} THEN 0 ELSE Min(rides)
        IN  /\ first <= 2
            /\ first \in {0, 1} => proposal[1].walkToFirstLegSeconds = Num(0)
            /\ first = 2 =>
                  /\ legs[1].type = "walk"
                  /\ proposal[1].walkToFirstLegSeconds = legs[1].durationSeconds

\* two walks merged into the leading walk of 390 s, then a ride
C17_Witness ==
    /\ pc = "done" /\ proposal # None
    /\ Len(journey.legs) >= 3
    /\ Len(proposal[1].legs) >= 2
    /\ proposal[1].legs[1].type = "walk"
    /\ proposal[1].legs[2].type # "walk"
    /\ proposal[1].walkToFirstLegSeconds = Num(390)

(***************************************************************************)
(* The contract of the config commands.                                    *)
(***************************************************************************)
ValidKey == \E i \in 1..Len(CONFIG_KEYS) : CONFIG_KEYS[i] = opts.key

\* a step of config set that gets to print its result has rewritten the
\* file: the key maps to the value, every other stored key is kept, and
\* reading the file again gives the value
SetRewrites ==
    (pc = "start" /\ pc' = "exit" /\ opts.command = "config set" /\ ValidKey) =>
        LET old == readConfig(configFile).value
            new == readConfig(configFile').value
        IN  /\ ~readConfig(configFile').threw
            /\ DOMAIN new = DOMAIN old \cup {opts.key}
            /\ new[opts.key] = opts.value
            /\ \A k \in DOMAIN old \ {opts.key} : new[k] = old[k]
            /\ configFile'.exists
            /\ ConfigValue(new, opts.key) = Some(opts.value)

\* no other step changes the file
OnlySetWrites ==
    ~(opts.command = "config set" /\ ValidKey) => configFile' = configFile

\* config set with a key that is none of the four ends with exit code 1
InvalidKeyFails ==
    (pc = "exit" /\ opts.command = "config set" /\ ~ValidKey) => exitCode = 1

\* config list and config get on a missing file print the empty config
MissingFileIsEmpty ==
    (/\ pc = "exit" /\ opts.command \in {"config list", "config get"}
     /\ ~configFile.exists /\ ~(opts.json /\ opts.plain)) =>
        /\ ValidKey \/ opts.command = "config list" =>
              /\ exitCode = 0
              /\ Len(stdout) = 1 /\ stdout[1].kind = "result"
              /\ opts.command = "config get" => stdout[1].content.value = None

\* C16: config set with one of the four keys rewrites the file so that the
\* key maps to the value and every other stored key is kept; with any other
\* key it fails with exit code 1 and leaves the file alone; config list and
\* config get never change the file, and a missing file reads as the empty
\* config.
C16_ConfigSetFrame ==
    /\ [][SetRewrites /\ OnlySetWrites]_vars
    /\ [](InvalidKeyFails /\ MissingFileIsEmpty)

(***************************************************************************)
(* The contract of the plan command's checks.                              *)
(***************************************************************************)
\* a text option that is given and not blank
Given(option) == option # None /\ Trim(option[1]) # <<>>

\* no --from, no SLCLI_ORIGIN, no origin in the config file
MissingOrigin ==
    /\ ~Given(opts.from)
    /\ ~Given(opts.envOrigin)
    /\ ~Given(ConfigValue(readConfig(configFile).value, "origin"))

BlankDestination == ~Given(opts.to)

DepartAndArrive ==
    (TruthyChars(opts.depart) \/ TruthyChars(opts.at)) /\ TruthyChars(opts.arrive)

\* the date/time the command would use does not parse
UnparsedDateTime ==
    \/ TruthyChars(opts.depart) /\ parseDateTimeInput(opts.depart[1]) = None
    \/ /\ ~TruthyChars(opts.depart) /\ TruthyChars(opts.at)
       /\ parseDateTimeInput(opts.at[1]) = None
    \/ /\ ~TruthyChars(opts.depart) /\ ~TruthyChars(opts.at) /\ TruthyChars(opts.arrive)
       /\ parseDateTimeInput(opts.arrive[1]) = None

InputError == MissingOrigin \/ BlankDestination \/ DepartAndArrive \/ UnparsedDateTime

\* C18: a plan run whose input is in error (origin missing, --to blank,
\* --depart or --at together with --arrive, a date/time that does not parse)
\* issues no request and ends with an error and exit code 1; and the trip
\* search is issued only once origin and destination are both resolved.
C18_InputErrorsBeforeRequests ==
    opts.command = "plan" =>
        /\ InputError =>
              /\ requests = <<>>
              /\ pc = "exit" =>
                    /\ exitCode = 1
                    /\ Len(stdout) + Len(stderr) = 1
                    /\ \A i \in 1..Len(stdout) : stdout[i].kind = "error"
        /\ \A i \in 1..Len(requests) :
              requests[i].kind = "trips" =>
                  /\ resolved.origin # None /\ resolved.destination # None
                  /\ \A k \in 1..(i - 1) : requests[k].outcome = "ok"

(***************************************************************************)
(* The contract of next --minutes.                                         *)
(***************************************************************************)
\* the departures among the normalized ones that are at most n minutes away
Within(n) ==
    SelectSeq(departures, LAMBDA d : ~d.minutesUntil.nan /\ d.minutesUntil.v <= n)

\* C19: what next prints is, with --minutes N, exactly the normalized
\* departures with minutesUntil <= N in their order, for every N including
\* 0, and without --minutes all the normalized departures.
C19_MinutesFilter ==
    (/\ pc = "exit" /\ opts.command = "next"
     /\ Len(stdout) = 1 /\ stdout[1].kind = "result") =>
        stdout[1].content.departures =
            IF opts.minutes # None THEN Within(opts.minutes[1]) ELSE departures

====
